---- MODULE Spec2Model ----
(***************************************************************************)
(* Model of the format-preserving resume editor                            *)
(* (src/services/docx_editor.py) and of the HTTP endpoint that calls it    *)
(* (src/main.py, edit_resume_docx_endpoint), under Spec; of the text       *)
(* extraction (src/services/file_parser.py), under SpecExtract; of two     *)
(* calls of the editor at the same time, under SpecConcurrent; of calls of *)
(* the editor on its own answer, under SpecRepeat; and of the validation   *)
(* of the request in six endpoints of src/main.py, under SpecValidate.     *)
(*                                                                         *)
(* A text is a sequence of one-character strings, so that the string       *)
(* operations of the code (strip, lower, in, startswith, endswith, len)    *)
(* are computed and not assumed.  The character U+2022 (the round bullet)  *)
(* is written "u2022": it is one element of a text, as it is one code      *)
(* point of a Python str.                                                  *)
(***************************************************************************)
EXTENDS Integers, Sequences, FiniteSets, TLC

(***************************************************************************)
(* Python str operations                                                   *)
(***************************************************************************)
ToLowerMap ==
    ("A" :> "a") @@ ("B" :> "b") @@ ("C" :> "c") @@ ("D" :> "d") @@
    ("E" :> "e") @@ ("F" :> "f") @@ ("G" :> "g") @@ ("H" :> "h") @@
    ("I" :> "i") @@ ("J" :> "j") @@ ("K" :> "k") @@ ("L" :> "l") @@
    ("M" :> "m") @@ ("N" :> "n") @@ ("O" :> "o") @@ ("P" :> "p") @@
    ("Q" :> "q") @@ ("R" :> "r") @@ ("S" :> "s") @@ ("T" :> "t") @@
    ("U" :> "u") @@ ("V" :> "v") @@ ("W" :> "w") @@ ("X" :> "x") @@
    ("Y" :> "y") @@ ("Z" :> "z")

\* str.lower()
Lower(s) ==
    [k \in 1..Len(s) |-> IF s[k] \in DOMAIN ToLowerMap THEN ToLowerMap[s[k]] ELSE s[k]]

IsSpace(c) == c \in {" ", "\t", "\n"}

RECURSIVE LStrip(_)
LStrip(s) ==
    IF s = <<>> THEN <<>>
    ELSE IF IsSpace(Head(s)) THEN LStrip(Tail(s)) ELSE s

RECURSIVE RStrip(_)
RStrip(s) ==
    IF s = <<>> THEN <<>>
    ELSE IF IsSpace(s[Len(s)]) THEN RStrip(SubSeq(s, 1, Len(s) - 1)) ELSE s

\* str.strip()
Strip(s) == RStrip(LStrip(s))

\* t in s
Contains(s, t) ==
    \E k \in 1..(Len(s) - Len(t) + 1) : SubSeq(s, k, k + Len(t) - 1) = t

\* s.startswith(t)
StartsWith(s, t) == Len(t) <= Len(s) /\ SubSeq(s, 1, Len(t)) = t

\* s.endswith(t)
EndsWith(s, t) == Len(t) <= Len(s) /\ SubSeq(s, Len(s) - Len(t) + 1, Len(s)) = t

RECURSIVE Join(_, _)
\* sep.join(xs)
Join(sep, xs) ==
    IF xs = <<>> THEN <<>>
    ELSE IF Len(xs) = 1 THEN xs[1]
    ELSE xs[1] \o sep \o Join(sep, Tail(xs))

\* any(h in text for h in hs)
AnyIn(hs, text) == \E k \in 1..Len(hs) : Contains(text, hs[k])

Min(a, b) == IF a <= b THEN a ELSE b

(***************************************************************************)
(* The document model of python-docx, as far as the editor uses it: a      *)
(* document is a sequence of paragraphs, a paragraph a sequence of runs, a *)
(* run a text with the three font fields the editor reads.  "None" is      *)
(* Python's None.                                                          *)
(***************************************************************************)
None == "None"

Run(t, name, size, bold) ==
    [text |-> t, font_name |-> name, font_size |-> size, bold |-> bold]

RECURSIVE ParaText(_)
\* paragraph.text: the run texts, concatenated
ParaText(p) == IF p = <<>> THEN <<>> ELSE p[1].text \o ParaText(Tail(p))

\* paragraph.add_run(t): a new last run that sets no font field
AddRun(p, t) == Append(p, Run(t, None, None, None))

(***************************************************************************)
(* The header tables of the editor                                         *)
(***************************************************************************)

skills_headers ==
    << <<"s","k","i","l","l","s">>,
       <<"t","e","c","h","n","i","c","a","l"," ","s","k","i","l","l","s">>,
       <<"t","e","c","h","n","i","c","a","l"," ","e","x","p","e","r","t","i","s","e">>,
       <<"c","o","r","e"," ","c","o","m","p","e","t","e","n","c","i","e","s">>,
       <<"e","x","p","e","r","t","i","s","e">> >>

experience_headers ==
    << <<"e","x","p","e","r","i","e","n","c","e">>,
       <<"w","o","r","k"," ","e","x","p","e","r","i","e","n","c","e">>,
       <<"p","r","o","f","e","s","s","i","o","n","a","l"," ","e","x","p","e","r","i","e","n","c","e">>,
       <<"e","m","p","l","o","y","m","e","n","t">>,
       <<"w","o","r","k"," ","h","i","s","t","o","r","y">> >>

headers ==
    << <<"e","x","p","e","r","i","e","n","c","e">>,
       <<"e","d","u","c","a","t","i","o","n">>,
       <<"s","k","i","l","l","s">>,
       <<"p","r","o","j","e","c","t","s">>,
       <<"c","e","r","t","i","f","i","c","a","t","i","o","n","s">>,
       <<"p","u","b","l","i","c","a","t","i","o","n","s">>,
       <<"a","w","a","r","d","s">>,
       <<"r","e","f","e","r","e","n","c","e","s">>,
       <<"s","u","m","m","a","r","y">>,
       <<"o","b","j","e","c","t","i","v","e">>,
       <<"w","o","r","k"," ","h","i","s","t","o","r","y">>,
       <<"e","m","p","l","o","y","m","e","n","t">>,
       <<"q","u","a","l","i","f","i","c","a","t","i","o","n","s">>,
       <<"a","c","h","i","e","v","e","m","e","n","t","s">>,
       <<"t","e","c","h","n","i","c","a","l"," ","e","x","p","e","r","t","i","s","e">>,
       <<"t","e","c","h","n","i","c","a","l"," ","s","k","i","l","l","s">>,
       <<"c","o","r","e"," ","c","o","m","p","e","t","e","n","c","i","e","s">> >>


HeaderMaxLen == 50
ContentMinLen == 5
ScanWindow == 10
KeywordCap == 5
max_modifications == 2

\* mutant of is_section_header: the text must be a header word, not hold one
is_section_header_Exact(text) ==
    Len(text) < HeaderMaxLen /\ \E k \in 1..Len(headers) : Strip(Lower(text)) = headers[k]

\* mutant of is_section_header: only a text under 10 characters is a header
is_section_header_Long(text) ==
    Len(text) < 10 /\ AnyIn(headers, Strip(Lower(text)))

\* is_section_header(text)
is_section_header(text) ==
    Len(text) < HeaderMaxLen /\ AnyIn(headers, Strip(Lower(text)))

\* line 86: the test of the skills pass, on a paragraph
is_skills_header(p) ==
    AnyIn(skills_headers, Lower(Strip(ParaText(p)))) /\ Len(ParaText(p)) < HeaderMaxLen

\* mutant of is_experience_header: a text of any length
is_experience_header_NoLength(text) == AnyIn(experience_headers, Lower(text))

\* line 174: the test of the bullet pass, on the trimmed text of a paragraph
is_experience_header(text) ==
    AnyIn(experience_headers, Lower(text)) /\ Len(text) < HeaderMaxLen

(***************************************************************************)
(* append_to_skills_section                                                *)
(***************************************************************************)
Truthy(x) == x # None /\ x # ""

\* lines 127-135: the run the skills pass appends after last_run
SkillsRun(last_run, t) ==
    [text |-> t,
     font_name |-> IF Truthy(last_run.font_name) THEN last_run.font_name ELSE None,
     font_size |-> IF Truthy(last_run.font_size) THEN last_run.font_size ELSE None,
     bold |-> IF last_run.bold # None THEN last_run.bold ELSE None]

\* lines 118-121: both branches pick the same separator
Separator(content) == IF Contains(content, <<",">>) THEN <<",", " ">> ELSE <<",", " ">>

\* mutant of NewKeywords: the comparison is case-sensitive
NewKeywordsCaseSensitive(keywords, content_lower) ==
    SelectSeq(keywords, LAMBDA kw : ~Contains(content_lower, kw))

\* lines 108-111: the keywords not yet in the content line, in input order
NewKeywords(keywords, content_lower) ==
    SelectSeq(keywords, LAMBDA kw : ~Contains(content_lower, Lower(kw)))

\* mutant of CapKeywords: one keyword fewer
CapKeywordsShort(new_keywords) ==
    SubSeq(new_keywords, 1, Min(KeywordCap - 1, Len(new_keywords)))

\* line 115
CapKeywords(new_keywords) == SubSeq(new_keywords, 1, Min(KeywordCap, Len(new_keywords)))

\* mutant of AppendKeywords: the run starts without the separator
AppendKeywordsNoLead(content_para, content, keywords_to_add) ==
    AddRun(content_para, Join(Separator(content), keywords_to_add))

\* lines 123-137: the content paragraph with the keywords appended
AppendKeywords(content_para, content, keywords_to_add) ==
    LET sep == Separator(content)
        t == sep \o Join(sep, keywords_to_add)
    IN  IF content_para # <<>>
        THEN Append(content_para, SkillsRun(content_para[Len(content_para)], t))
        ELSE AddRun(content_para, t)

\* mutant of FirstSkillsHeader: the first short paragraph, whatever it says
FirstSkillsHeaderAnyShort(d) ==
    IF \E k \in 1..Len(d) : Len(ParaText(d[k])) < HeaderMaxLen
    THEN CHOOSE k \in 1..Len(d) :
            /\ Len(ParaText(d[k])) < HeaderMaxLen
            /\ \A m \in 1..(k - 1) : ~(Len(ParaText(d[m])) < HeaderMaxLen)
    ELSE 0

\* line 86, lines 82-88: the index of the first skills header, 0 when there is none
FirstSkillsHeader(d) ==
    IF \E k \in 1..Len(d) : is_skills_header(d[k])
    THEN CHOOSE k \in 1..Len(d) :
            is_skills_header(d[k]) /\ \A m \in 1..(k - 1) : ~is_skills_header(d[m])
    ELSE 0

NoEdit(d) == [doc |-> d, added |-> <<>>, para |-> 0]

RECURSIVE ScanSkillsContent(_, _, _, _)
\* lines 92-150: the scan of the paragraphs j..last after the header
ScanSkillsContent(d, keywords, j, last) ==
    IF j > last THEN NoEdit(d)
    ELSE LET content_para == d[j]
             content == Strip(ParaText(content_para))
         IN  IF Len(content) < ContentMinLen
             THEN ScanSkillsContent(d, keywords, j + 1, last)
             ELSE IF is_section_header(content)
             THEN NoEdit(d)
             ELSE LET new_keywords == NewKeywords(keywords, Lower(content))
                      keywords_to_add == CapKeywords(new_keywords)
                  IN  IF new_keywords # <<>>
                      THEN [doc |-> [d EXCEPT ![j] =
                                        AppendKeywords(content_para, content, keywords_to_add)],
                            added |-> keywords_to_add,
                            para |-> j]
                      ELSE ScanSkillsContent(d, keywords, j + 1, last)

\* mutant of append_to_skills_section: the scan goes one paragraph further
append_to_skills_section_Wide(d, keywords) ==
    LET h == FirstSkillsHeader(d)
    IN  IF h = 0 THEN NoEdit(d)
        ELSE ScanSkillsContent(d, keywords, h + 1, Min(h + ScanWindow, Len(d)))

\* lines 72-154; python's range(i + 1, min(i + 10, len)) with 0-based i is
\* h+1 .. min(h + ScanWindow - 1, len) with the 1-based header index h
append_to_skills_section(d, keywords) ==
    LET h == FirstSkillsHeader(d)
    IN  IF h = 0 THEN NoEdit(d)
        ELSE ScanSkillsContent(d, keywords, h + 1, Min(h + ScanWindow - 1, Len(d)))

(***************************************************************************)
(* enhance_relevant_bullets                                                *)
(***************************************************************************)

related_terms ==
    << [term |-> <<"d","e","s","i","g","n">>,
        related |-> << <<"d","e","s","i","g","n","e","d">>,
                     <<"d","e","v","e","l","o","p","e","d">>,
                     <<"c","r","e","a","t","e","d">>,
                     <<"b","u","i","l","t">> >>],
       [term |-> <<"a","n","a","l","o","g">>,
        related |-> << <<"c","i","r","c","u","i","t">>,
                     <<"a","m","p","l","i","f","i","e","r">>,
                     <<"c","o","m","p","a","r","a","t","o","r">>,
                     <<"b","a","n","d","g","a","p">> >>],
       [term |-> <<"v","e","r","i","f","i","c","a","t","i","o","n">>,
        related |-> << <<"v","e","r","i","f","i","e","d">>,
                     <<"t","e","s","t","e","d">>,
                     <<"v","a","l","i","d","a","t","e","d">>,
                     <<"s","i","m","u","l","a","t","e","d">> >>],
       [term |-> <<"p","o","w","e","r">>,
        related |-> << <<"v","o","l","t","a","g","e">>,
                     <<"c","u","r","r","e","n","t">>,
                     <<"s","u","p","p","l","y">>,
                     <<"p","u","m","p">> >>] >>

BulletChars == {"u2022", "-", "*"}

Utilizing == <<" ","u","t","i","l","i","z","i","n","g"," ">>


\* mutant of IsBullet: every paragraph with text
IsBulletAny(text) == text # << >>

\* line 184
IsBullet(text) == \E c \in BulletChars : StartsWith(text, << c >>)

\* lines 209-214
is_relevant(kw_lower, text_lower) ==
    \E k \in 1..Len(related_terms) :
        /\ Contains(kw_lower, related_terms[k].term)
        /\ AnyIn(related_terms[k].related, text_lower)

\* lines 189-216: whether the loop over the keywords reaches the edit with kw
KeywordFits(kw, text_lower) ==
    ~Contains(text_lower, Lower(kw)) /\ is_relevant(Lower(kw), text_lower)

\* mutant of ChosenKeyword: the last keyword that fits
ChosenKeywordLast(para, keywords, text_lower) ==
    IF para # <<>> /\ \E k \in 1..Len(keywords) : KeywordFits(keywords[k], text_lower)
    THEN CHOOSE k \in 1..Len(keywords) :
            /\ KeywordFits(keywords[k], text_lower)
            /\ \A m \in (k + 1)..Len(keywords) : ~KeywordFits(keywords[m], text_lower)
    ELSE 0

\* lines 189-239: the index of the keyword the bullet gets, 0 when none; a
\* paragraph without runs is left alone by every keyword (line 218)
ChosenKeyword(para, keywords, text_lower) ==
    IF para # <<>> /\ \E k \in 1..Len(keywords) : KeywordFits(keywords[k], text_lower)
    THEN CHOOSE k \in 1..Len(keywords) :
            /\ KeywordFits(keywords[k], text_lower)
            /\ \A m \in 1..(k - 1) : ~KeywordFits(keywords[m], text_lower)
    ELSE 0

\* lines 229-235: the run the bullet pass appends after last_run
BulletRun(last_run, t) ==
    [text |-> t,
     font_name |-> IF Truthy(last_run.font_name) THEN last_run.font_name ELSE None,
     font_size |-> IF Truthy(last_run.font_size) THEN last_run.font_size ELSE None,
     bold |-> None]

\* mutant of StripPeriod: the last character goes, whatever it is
StripPeriodAlways(last_run, text) ==
    [last_run EXCEPT !.text = SubSeq(last_run.text, 1, Len(last_run.text) - 1)]

\* lines 225-226: the last run, without its final period when the text ends with one
StripPeriod(last_run, text) ==
    IF EndsWith(text, <<".">>) /\ EndsWith(last_run.text, <<".">>)
    THEN [last_run EXCEPT !.text = SubSeq(last_run.text, 1, Len(last_run.text) - 1)]
    ELSE last_run

\* mutant of Addition: the period is not put back
AdditionNoPeriod(kw, text) == Utilizing \o kw

\* lines 222-227
Addition(kw, text) ==
    IF EndsWith(text, <<".">>) THEN Utilizing \o kw \o <<".">> ELSE Utilizing \o kw

\* lines 218-235: the bullet with the keyword phrase appended
EnhanceBullet(para, text, kw) ==
    LET n == Len(para)
        last_run == StripPeriod(para[n], text)
    IN  Append([para EXCEPT ![n] = last_run], BulletRun(last_run, Addition(kw, text)))

\* mutant of EditsExhausted: the bound is off by one
EditsExhaustedLate(modified) == modified > max_modifications

\* line 185
EditsExhausted(modified) == modified >= max_modifications

\* lines 169-239: one iteration of the loop, on paragraph k
BulletIteration(d, keywords, k, in_exp, modified) ==
    LET para == d[k]
        text == Strip(ParaText(para))
        text_lower == Lower(text)
        same == [doc |-> d, in_experience |-> in_exp, bullets_modified |-> modified,
                 stop |-> FALSE, kw |-> 0]
    IN  IF is_experience_header(text)
        THEN [same EXCEPT !.in_experience = TRUE]
        ELSE IF in_exp /\ is_section_header(text) /\ ~AnyIn(experience_headers, text_lower)
        THEN [same EXCEPT !.in_experience = FALSE]
        ELSE IF in_exp /\ IsBullet(text)
        THEN IF EditsExhausted(modified)
             THEN [same EXCEPT !.stop = TRUE]
             ELSE LET c == ChosenKeyword(para, keywords, text_lower)
                  IN  IF c = 0 THEN same
                      ELSE [same EXCEPT !.doc = [d EXCEPT ![k] =
                                                    EnhanceBullet(para, text, keywords[c])],
                                        !.bullets_modified = modified + 1,
                                        !.kw = c]
        ELSE same

RECURSIVE BulletLoop(_, _, _, _, _)
\* lines 169-241: the loop from paragraph k on
BulletLoop(d, keywords, k, in_exp, modified) ==
    IF k > Len(d) THEN [doc |-> d, count |-> modified]
    ELSE LET r == BulletIteration(d, keywords, k, in_exp, modified)
         IN  IF r.stop THEN [doc |-> d, count |-> modified]
             ELSE BulletLoop(r.doc, keywords, k + 1, r.in_experience, r.bullets_modified)

\* lines 157-241
enhance_relevant_bullets(d, keywords) == BulletLoop(d, keywords, 1, FALSE, 0)

(***************************************************************************)
(* Input data: paragraphs, documents, keyword lists, packages              *)
(***************************************************************************)
P_Skills ==
    << Run(<<"S","k","i","l","l","s">>, "Arial", "14pt", "True") >>

P_Experience ==
    << Run(<<"E","x","p","e","r","i","e","n","c","e">>, "Arial", "14pt", "True") >>

P_Education ==
    << Run(<<"E","d","u","c","a","t","i","o","n">>, "Arial", "14pt", "True") >>

\* a header of both families
P_Both ==
    << Run(<<"S","k","i","l","l","s"," ","&"," ","E","x","p","e","r","i","e","n","c","e">>, "Arial", "14pt", "True") >>

\* in skills_headers, in no entry of headers
P_Expertise ==
    << Run(<<"E","x","p","e","r","t","i","s","e">>, "Arial", "14pt", "True") >>

\* a paragraph of 50 characters or more that holds the word experience
P_Summary ==
    << Run(<<"E","n","g","i","n","e","e","r"," ","w","i","t","h"," ","t","e","n",
             " ","y","e","a","r","s"," ","o","f"," ","e","x","p","e","r","i","e",
             "n","c","e"," ","i","n"," ","c","i","r","c","u","i","t"," ","d","e",
             "s","i","g","n">>,
           "Arial", "11pt", None) >>

P_SkillsInline ==
    << Run(<<"S","k","i","l","l","s",":"," ">>, "Arial", "11pt", "True"),
       Run(<<"P","y","t","h","o","n",","," ","S","Q","L">>, "Arial", "11pt", "False") >>

P_Content ==
    << Run(<<"P","y","t","h","o","n",","," ">>, "Arial", "11pt", None),
       Run(<<"S","Q","L">>, "Arial", None, "False") >>

P_BulletA ==
    << Run(<<"u2022"," ","D","e","s","i","g","n","e","d"," ","a"," ","l","o","w","-","p","o","w","e","r"," ","c","o","m","p","a","r","a","t","o","r"," ">>, None, None, None),
       Run(<<"f","o","r"," ","t","h","e"," ","A","D","C",".">>, "Times", "11pt", None) >>

P_BulletB ==
    << Run(<<"-"," ","B","u","i","l","t"," ","c","i","r","c","u","i","t">>, "Arial", "11pt", "True") >>

\* the period is not the end of the last run
P_BulletC ==
    << Run(<<"*"," ","T","e","s","t","e","d"," ","t","h","e"," ","a","m","p","l","i","f","i","e","r",".">>, "Arial", "11pt", None),
       Run(<<" ">>, "Arial", "11pt", None) >>

\* the bullet of the scenario, without a bullet character
P_Plain ==
    << Run(<<"D","e","s","i","g","n","e","d"," ","a"," ","l","o","w","-","p","o","w","e","r"," ","c","o","m","p","a","r","a","t","o","r"," ","f","o","r"," ","t","h","e"," ","A","D","C",".">>, "Times", "11pt", None) >>

\* a Skills line of 50 characters, 6 when trimmed
P_SkillsPadded ==
    << Run(<<"S","k","i","l","l","s"," "," "," "," "," "," "," "," "," "," "," "," "," "," "," "," "," "," "," "," "," "," "," "," "," "," "," "," "," "," "," "," "," "," "," "," "," "," "," "," "," "," "," "," ">>, "Arial", "14pt", "True") >>

P_Blank == << >>


MaxParas == 3

Palette == {P_Skills, P_Experience, P_Both, P_Content, P_BulletA, P_BulletB, P_Blank}

\* every document of 1..MaxParas paragraphs of the palette
PaletteDocs == UNION {[1..n -> Palette] : n \in 1..MaxParas}

\* documents longer than MaxParas, and paragraphs outside the palette
ScenarioDocs ==
    { << P_SkillsInline >>,
      << P_SkillsInline, P_Content >>,
      << P_Experience, P_BulletA, P_BulletB, P_BulletA, P_BulletB >>,
      << P_Experience, P_Expertise, P_BulletB, P_BulletA >>,
      << P_Experience, P_BulletB, P_Education, P_BulletA >>,
      << P_Experience, P_BulletC >>,
      << P_Experience, P_Plain >>,
      << P_SkillsPadded, P_Content >>,
      << P_Education, P_Summary, P_BulletB >>,
      << P_Experience, P_Summary, P_BulletB >>,
      << P_Skills, P_Expertise, P_Content >> }

MaxGap == 9

\* a Skills header, g paragraphs without text, the skills line
GapDocs ==
    {<< P_Skills >> \o [k \in 1..g |-> P_Blank] \o << P_Content >> : g \in 2..MaxGap}

Docs == PaletteDocs \cup ScenarioDocs \cup GapDocs

K_analog == <<"a","n","a","l","o","g">>
K_python == <<"p","y","t","h","o","n">>
K_Python == <<"P","y","t","h","o","n">>
K_Docker == <<"D","o","c","k","e","r">>
K_AnalogDesign == <<"A","n","a","l","o","g"," ","D","e","s","i","g","n">>
K_Kubernetes == <<"K","u","b","e","r","n","e","t","e","s">>
K_AWS == <<"A","W","S">>
K_Terraform == <<"T","e","r","r","a","f","o","r","m">>
K_Ansible == <<"A","n","s","i","b","l","e">>
K_XP == <<"X","P">>

KeywordLists ==
    { << >>,
      << K_analog >>,
      << K_python >>,
      << K_python, K_Docker >>,
      << K_Docker, K_analog >>,
      << K_AnalogDesign, K_analog >>,
      << K_XP >>,
      << K_Python, K_Docker, K_Kubernetes, K_AWS, K_Terraform, K_Ansible >> }

\* the dict passed as ai_suggestions: with a 'keywords' entry, or without
AiSuggestions ==
    {[has_keywords |-> TRUE, keywords |-> k] : k \in KeywordLists}
        \cup {[has_keywords |-> FALSE, keywords |-> << >>]}

\* A package is what Document() reads and doc.save() writes.  enc tells the
\* writer of the package: two packages of one document by different writers
\* differ as bytes.
\* doc is the body paragraphs in their order (what doc.paragraphs gives);
\* tables is the tables of the body, each with the number of body paragraphs
\* that stand before it and the paragraphs of its cells.
PackageWithTables(enc, d, t) == [valid |-> TRUE, enc |-> enc, doc |-> d, tables |-> t]
Package(enc, d) == PackageWithTables(enc, d, << >>)
CorruptBytes == [valid |-> FALSE, enc |-> "junk", doc |-> << >>, tables |-> << >>]
NoBytes == [valid |-> FALSE, enc |-> "none", doc |-> << >>, tables |-> << >>]

Table(at, cells) == [at |-> at, cells |-> cells]

\* documents with a table whose cells hold what the passes look for
TablePackages ==
    { PackageWithTables("word", << P_Experience, P_BulletB >>,
                        << Table(1, << P_Skills, P_Content, P_BulletA >>) >>),
      PackageWithTables("word", << P_Skills, P_Content >>,
                        << Table(0, << P_Skills, P_SkillsInline >>),
                           Table(2, << P_Experience, P_BulletA >>) >>) }

InputBytes ==
    {Package("word", d) : d \in Docs}
        \cup {Package("python-docx", d) : d \in ScenarioDocs}
        \cup TablePackages
        \cup {CorruptBytes}

Filenames == { <<"c","v",".","d","o","c","x">>,
               <<"C","V",".","D","O","C","X">>,
               <<"c","v",".","p","d","f">> }

DotDocx == <<".","d","o","c","x">>

KeywordForms ==
    { <<>>,
      <<" ",","," ">>,
      <<"a","n","a","l","o","g">>,
      <<" ","D","o","c","k","e","r"," ",","," ","a","n","a","l","o","g",",">> }


EndpointBytes ==
    { Package("word", << P_Experience, P_BulletA >>),
      Package("word", << P_Skills, P_Content >>),
      CorruptBytes }

(***************************************************************************)
(* edit_resume_docx_endpoint: the parse of the keywords form field         *)
(***************************************************************************)
RECURSIVE SplitComma(_, _)
\* keywords.split(','), with cur the piece read so far
SplitComma(s, cur) ==
    IF s = << >> THEN << cur >>
    ELSE IF Head(s) = "," THEN << cur >> \o SplitComma(Tail(s), << >>)
    ELSE SplitComma(Tail(s), Append(cur, Head(s)))

\* line 617: [k.strip() for k in keywords.split(',') if k.strip()]
ParseKeywords(form) ==
    LET pieces == SplitComma(form, << >>)
        kept == SelectSeq(pieces, LAMBDA k : Strip(k) # << >>)
    IN  [n \in 1..Len(kept) |-> Strip(kept[n])]

\* line 606
IsDocxName(name) == EndsWith(Lower(name), DotDocx)

(***************************************************************************)
(* file_parser: extract_text_from_file                                     *)
(***************************************************************************)
\* "\n\n" and " | "
ParagraphBreak == << "\n", "\n" >>
CellBar == << " ", "|", " " >>

\* a byte that is no UTF-8 text
BadByte == "xFF"

\* the bytes of a PDF file with the given pages (a page is held as a
\* paragraph, its text what page.extract_text() gives), and of a text file
PdfBytes(pages) == [valid |-> FALSE, enc |-> "pdf", doc |-> pages, tables |-> << >>]
TextBytes(bytes) ==
    [valid |-> FALSE, enc |-> "txt", doc |-> << << Run(bytes, None, None, None) >> >>,
     tables |-> << >>]

\* the bytes of a file, as far as the model tells them apart
RawBytes(file_content) ==
    IF file_content.enc = "txt" THEN ParaText(file_content.doc[1])
    ELSE IF file_content.enc = "pdf" THEN << "%", "P", "D", "F", BadByte >>
    ELSE IF file_content.valid THEN << "P", "K", BadByte >>
    ELSE << BadByte >>

\* what a call of the extraction gives: a text, or an exception of a kind
Extracted(text) == [raised |-> "none", text |-> text]
Raises(kind) == [raised |-> kind, text |-> << >>]
NotExtracted == [raised |-> "not called", text |-> << >>]

NonEmpty(texts) == SelectSeq(texts, LAMBDA t : t # << >>)
NonBlank(texts) == SelectSeq(texts, LAMBDA t : Strip(t) # << >>)

\* mutant of parse_pdf: the exception of the library is not wrapped
parse_pdf_Unwrapped(file_content) ==
    IF file_content.enc = "pdf"
    THEN Extracted(Join(ParagraphBreak,
                        NonEmpty([k \in 1..Len(file_content.doc) |->
                                     ParaText(file_content.doc[k])])))
    ELSE Raises("PdfReadError")

\* lines 9-28: PdfReader reads PDF bytes only; any exception becomes ValueError
parse_pdf(file_content) ==
    IF file_content.enc = "pdf"
    THEN Extracted(Join(ParagraphBreak,
                        NonEmpty([k \in 1..Len(file_content.doc) |->
                                     ParaText(file_content.doc[k])])))
    ELSE Raises("ValueError")

\* lines 51-54: the stripped texts of the cells of a row that are not blank
RowText(table) ==
    NonEmpty([k \in 1..Len(table.cells) |-> Strip(ParaText(table.cells[k]))])

\* lines 31-61: Document reads a valid package only; any exception becomes
\* ValueError
parse_docx(file_content) ==
    IF file_content.valid
    THEN LET paras == NonBlank([k \in 1..Len(file_content.doc) |->
                                   ParaText(file_content.doc[k])])
             rows == NonEmpty([n \in 1..Len(file_content.tables) |->
                                  RowText(file_content.tables[n])])
         IN  Extracted(Join(ParagraphBreak,
                            paras \o [n \in 1..Len(rows) |-> Join(CellBar, rows[n])]))
    ELSE Raises("ValueError")

\* line 77: file_content.decode('utf-8', errors='ignore')
Decode(file_content) == SelectSeq(RawBytes(file_content), LAMBDA b : b # BadByte)

\* lines 64-79
extract_text_from_file(file_content, name) ==
    LET filename_lower == Lower(name)
    IN  IF EndsWith(filename_lower, << ".", "p", "d", "f" >>)
        THEN parse_pdf(file_content)
        ELSE IF EndsWith(filename_lower, DotDocx)
        THEN parse_docx(file_content)
        ELSE IF EndsWith(filename_lower, << ".", "d", "o", "c" >>)
        THEN Raises("ValueError")
        ELSE IF EndsWith(filename_lower, << ".", "t", "x", "t" >>)
        THEN Extracted(Decode(file_content))
        ELSE Raises("ValueError")

Page(text) == << Run(text, None, None, None) >>

PdfResume ==
    PdfBytes(<< Page(<<"J","a","n","e"," ","D","o","e">>),
                Page(<< >>),
                Page(<<" ","A","n","a","l","o","g"," ","d","e","s","i","g","n">>) >>)

TableResume ==
    PackageWithTables("word", << P_Experience, P_Blank, P_BulletB >>,
                      << Table(1, << P_Skills, P_Blank, P_BulletA >>),
                         Table(3, << P_Blank >>) >>)

TextResume == TextBytes(<<"J","a","n","e","xFF"," ","D","o","e","\n">>)

FileContents ==
    { PdfResume,
      PdfBytes(<< >>),
      TableResume,
      Package("word", << P_Skills, P_Content >>),
      Package("python-docx", << >>),
      TextResume,
      TextBytes(<< >>),
      CorruptBytes }

UploadNames ==
    { <<"c","v",".","p","d","f">>,
      <<"C","V",".","P","D","F">>,
      <<"c","v",".","d","o","c","x">>,
      <<"C","v",".","D","o","c","X">>,
      <<"c","v",".","d","o","c">>,
      <<"c","v",".","t","x","t">>,
      <<"c","v",".","p","d","f",".","t","x","t">>,
      <<"c","v",".","r","t","f">>,
      <<"c","v">>,
      <<"c","v",".","d","o","c","x"," ">>,
      << >> }

(***************************************************************************)
(* create_tailored_resume_from_template                                    *)
(***************************************************************************)
\* line 29: ai_suggestions.get('keywords', [])
GetKeywords(ai) == IF ai.has_keywords THEN ai.keywords ELSE << >>

\* line 37: Document(io.BytesIO(bytes)) of a valid package
Load(bytes) == bytes.doc

\* line 37: the tables of the document loaded; doc.paragraphs (lines 82, 169)
\* does not reach into them
LoadTables(bytes) == bytes.tables

\* mutant of Save: only the paragraphs the passes went through are written
SaveParagraphsOnly(d, t) == PackageWithTables("python-docx", d, << >>)

\* lines 59-62: doc.save(output); output.read()
Save(d, t) == PackageWithTables("python-docx", d, t)

Returned(bytes) == [raised |-> FALSE, value |-> bytes]
Raised == [raised |-> TRUE, value |-> NoBytes]
NotReturned == [raised |-> FALSE, value |-> NoBytes]

\* mutants of ExceptHandler: the handler serializes the document it has, hands
\* back the document when one was loaded, lets the exception through
ExceptHandlerSaves(original, d) == Returned(Save(d, LoadTables(original)))
ExceptHandlerSalvages(original, d) ==
    IF d = << >> THEN Returned(original) ELSE Returned(Save(d, LoadTables(original)))
ExceptHandlerRaises(original, d) == Raised

\* lines 64-69: what the call answers when the try block raised with the
\* document in state d
ExceptHandler(original, d) == Returned(original)

\* mutant of EmptyKeywords: the document is loaded and saved again
EmptyKeywordsResaves(original) ==
    IF original.valid THEN Returned(Save(Load(original), LoadTables(original))) ELSE Raised

\* lines 31-33: what the call answers for an empty keyword list
EmptyKeywords(original) == Returned(original)

\* lines 21-69: what the call answers when no step of it is interrupted
create_tailored_resume_from_template(original, ai) ==
    LET kws == GetKeywords(ai)
    IN  IF kws = << >> THEN EmptyKeywords(original)
        ELSE IF ~original.valid THEN ExceptHandler(original, << >>)
        ELSE Returned(Save(enhance_relevant_bullets(
                               append_to_skills_section(Load(original), kws).doc, kws).doc,
                           LoadTables(original)))

\* lines 622-651: the response of the endpoint
Response(status, content) == [status |-> status, content |-> content]
NoResponse == Response(0, NoBytes)

(***************************************************************************)
(* main.py: the validation of the request in the endpoints parse-job,      *)
(* parse-resume, match, cover-letter, generate-resume and                  *)
(* generate-cover-letter                                                   *)
(***************************************************************************)
MinJobText == 50
MinResumeText == 100

Endpoints ==
    {"parse-job", "parse-resume", "match", "cover-letter", "generate-resume",
     "generate-cover-letter"}

\* the endpoints whose request may come without job_text (lines 460, 473)
OptionalJobText == {"generate-resume", "generate-cover-letter"}

\* a text of n characters, and the same with a blank before and after
Chars(n) == [k \in 1..n |-> "x"]
Padded(n) == << " " >> \o Chars(n) \o << "\n" >>

JobTexts == {<< >>, Padded(MinJobText - 1), Chars(MinJobText)}
ResumeTexts == {<< >>, Padded(MinResumeText - 1), Chars(MinResumeText)}

\* job_data is None in every request of the model, so lines 489-490 and
\* 550-551 are skipped; has_job_text is FALSE for a job_text of None
Request(endpoint, has_job_text, job_text, resume_text, ai_fails) ==
    [endpoint |-> endpoint, has_job_text |-> has_job_text, job_text |-> job_text,
     resume_text |-> resume_text, ai_fails |-> ai_fails]

NoRequest == Request("none", FALSE, << >>, << >>, FALSE)

Requests ==
    {Request(e, TRUE, j, r, f) :
        e \in Endpoints, j \in JobTexts, r \in ResumeTexts, f \in BOOLEAN}
    \cup {Request(e, FALSE, << >>, r, f) :
              e \in OptionalJobText, r \in ResumeTexts, f \in BOOLEAN}

\* not text or len(text.strip()) < n
TooShort(text, n) == text = << >> \/ Len(Strip(text)) < n

\* lines 97, 125, 154-157, 203-206, 491, 552-555: the request is one the
\* endpoint raises HTTPException(status_code=400) for
FailsValidation(req) ==
    LET job_short == TooShort(req.job_text, MinJobText)
        resume_short == TooShort(req.resume_text, MinResumeText)
    IN  CASE req.endpoint = "parse-job" -> job_short
          [] req.endpoint = "parse-resume" -> resume_short
          [] req.endpoint = "generate-resume" -> job_short
          [] OTHER -> job_short \/ resume_short

\* lines 110-111, 138-139, 186-187, 232-233, 536-537, 577-578: except
\* Exception catches every exception raised in the try block, the
\* HTTPException of the validation among them, and raises
\* HTTPException(status_code=500)
ExceptException(raised_status) == 500

\* the status the endpoint answers with
EndpointStatus(req) ==
    IF FailsValidation(req) THEN ExceptException(400)
    ELSE IF req.ai_fails THEN ExceptException(0)
    ELSE 200

\* repeated application: the calls made one after the other, and the inputs
MaxRounds == 3

K_design == <<"d","e","s","i","g","n">>

RepeatBytes ==
    { Package("word", << P_Experience, P_BulletB >>),
      Package("word", << P_Experience, P_BulletA, P_BulletC >>),
      Package("word", << P_Skills, P_Content, P_Experience, P_BulletB >>),
      Package("word", << P_Both, P_BulletB, P_BulletB >>) }

RepeatSuggestions ==
    {[has_keywords |-> TRUE, keywords |-> k] :
        k \in {<< K_analog >>, << K_design, K_analog >>, << K_AnalogDesign, K_python >>}}

\* the endpoint before it calls: no suggestions yet
NoCall == [has_keywords |-> FALSE, keywords |-> << >>]

\* concurrent calls: the calls, what each is given, and the frame of a call
\* (its arguments, its position, its locals, its answer)
Calls == {"a", "b"}

ConcurrentBytes ==
    { Package("word", << P_Experience, P_BulletA >>),
      Package("word", << P_Skills, P_Content, P_BulletB >>),
      PackageWithTables("word", << P_Both, P_BulletB >>,
                        << Table(1, << P_Skills, P_Content >>) >>),
      CorruptBytes }

ConcurrentSuggestions ==
    {[has_keywords |-> TRUE, keywords |-> k] :
        k \in {<< >>, << K_analog >>, << K_python, K_Docker >>}}

NewFrame(bytes, ai) ==
    [original_docx_bytes |-> bytes, ai_suggestions |-> ai, pc |-> "call",
     keywords_to_add |-> << >>, doc |-> << >>, tables |-> << >>,
     skills_modified |-> << >>, i |-> 0, in_experience |-> FALSE,
     bullets_modified |-> 0, result |-> NotReturned]

\* the frame after the call has answered r: its locals are gone
Answered(frame, r) ==
    [NewFrame(frame.original_docx_bytes, frame.ai_suggestions)
        EXCEPT !.pc = "done", !.result = r]

NoCalls == [c \in Calls |-> Answered(NewFrame(NoBytes, NoCall), NotReturned)]

\* mutant of Frame: the locals are module state, those of the first call
FrameShared(cs, c) == [cs["a"] EXCEPT !.pc = cs[c].pc]

\* lines 21-69: the frame a step of call c reads and writes, the call's own
Frame(cs, c) == cs[c]

VARIABLES
    entry,                \* "core": the function is called; "endpoint": the HTTP request
    filename,             \* endpoint: file.filename
    keywords_form,        \* endpoint: the keywords form field
    original_docx_bytes,  \* the uploaded content, the first argument of the call
    ai_suggestions,       \* the second argument of the call
    pc,                   \* the position of the request or call
    keywords_to_add,      \* line 29
    doc,                  \* line 37: the document in memory, its body paragraphs
    tables,               \* line 37: the document in memory, its tables
    skills_modified,      \* line 47
    i,                    \* line 169: the paragraph the bullet pass is at
    in_experience,        \* line 165
    bullets_modified,     \* line 166
    result,               \* what the call answered
    response,             \* what the endpoint answered
    steps,                \* history: the steps of the call taken so far
    fault,                \* history: the step that raised, "none" if none did
    doc_skills,           \* history: the document as the skills pass left it
    file_content,         \* extract_text_from_file: its first argument
    extracted,            \* extract_text_from_file: what the call gave
    calls,                \* concurrent calls: the arguments, position, locals and
                          \* answer of each call
    round,                \* repeated application: the number of the call
    request,              \* request validation: the request
    status_code,          \* request validation: the status answered, 0 before
    edits                 \* history: the paragraphs the passes changed, each with
                          \* the keywords appended, the runs before and after,
                          \* and the count of bullets modified before it

vars == << entry, filename, keywords_form, original_docx_bytes, ai_suggestions, pc,
           keywords_to_add, doc, tables, skills_modified, i, in_experience, bullets_modified,
           result, response, steps, fault, doc_skills, file_content, extracted, calls,
           round, request, status_code, edits >>

\* the state of the operations that run apart from the single call
apart == << file_content, extracted, calls, round, request, status_code >>

inputs == << entry, filename, keywords_form, original_docx_bytes >>
locals == << keywords_to_add, doc, tables, skills_modified, i, in_experience, bullets_modified >>

InitLocals ==
    /\ keywords_to_add = << >>
    /\ doc = << >>
    /\ tables = << >>
    /\ skills_modified = << >>
    /\ i = 0
    /\ in_experience = FALSE
    /\ bullets_modified = 0
    /\ result = NotReturned
    /\ response = NoResponse
    /\ steps = << >>
    /\ fault = "none"
    /\ doc_skills = << >>
    /\ edits = << >>

\* no text extraction and no concurrent call is under way
InitApart ==
    /\ file_content = NoBytes
    /\ extracted = NotExtracted
    /\ calls = NoCalls
    /\ round = 1
    /\ request = NoRequest
    /\ status_code = 0

Init ==
    /\ InitApart
    /\ \/ /\ entry = "core"
          /\ filename = << >>
          /\ keywords_form = << >>
          /\ original_docx_bytes \in InputBytes
          /\ ai_suggestions \in AiSuggestions
          /\ pc = "call"
       \/ /\ entry = "endpoint"
          /\ filename \in Filenames
          /\ keywords_form \in KeywordForms
          /\ original_docx_bytes \in EndpointBytes
          /\ ai_suggestions = NoCall
          /\ pc = "request"
    /\ InitLocals

\* the call returns r: its locals are gone, the caller goes on
Return(r) ==
    /\ result' = r
    /\ pc' = IF entry = "endpoint" THEN "respond" ELSE "done"
    /\ keywords_to_add' = << >>
    /\ doc' = << >>
    /\ tables' = << >>
    /\ skills_modified' = << >>
    /\ i' = 0
    /\ in_experience' = FALSE
    /\ bullets_modified' = 0
    /\ doc_skills' = << >>

\* main.py lines 601-628: validation, the parse of the keywords, the early answer
EndpointRequest ==
    /\ pc = "request"
    /\ IF ~IsDocxName(filename)
       THEN /\ response' = Response(400, NoBytes)
            /\ pc' = "done"
            /\ UNCHANGED ai_suggestions
       ELSE LET keywords_list == ParseKeywords(keywords_form)
            IN  IF keywords_list = << >>
                THEN /\ response' = Response(200, original_docx_bytes)
                     /\ pc' = "done"
                     /\ UNCHANGED ai_suggestions
                ELSE /\ ai_suggestions' = [has_keywords |-> TRUE, keywords |-> keywords_list]
                     /\ pc' = "call"
                     /\ UNCHANGED response
    /\ UNCHANGED apart
    /\ UNCHANGED << inputs, locals, result, steps, fault, doc_skills, edits >>

\* main.py lines 631-651: the answer after the call
EndpointRespond ==
    /\ pc = "respond"
    /\ response' = IF result.raised THEN Response(500, NoBytes)
                   ELSE Response(200, result.value)
    /\ pc' = "done"
    /\ UNCHANGED apart
    /\ UNCHANGED << inputs, ai_suggestions, locals, result, steps, fault, doc_skills,
                    edits >>

\* lines 29-33
CoreEntry ==
    /\ pc = "call"
    /\ LET kws == GetKeywords(ai_suggestions)
       IN  IF kws = << >>
           THEN /\ Return(EmptyKeywords(original_docx_bytes))
                /\ UNCHANGED steps
           ELSE /\ keywords_to_add' = kws
                /\ pc' = "load"
                /\ steps' = Append(steps, "entered")
                /\ UNCHANGED << doc, tables, skills_modified, i, in_experience, bullets_modified,
                                result, doc_skills >>
    /\ UNCHANGED apart
    /\ UNCHANGED << inputs, ai_suggestions, response, fault, edits >>

\* line 37, of a valid package
LoadDocument ==
    /\ pc = "load"
    /\ original_docx_bytes.valid
    /\ doc' = Load(original_docx_bytes)
    /\ tables' = LoadTables(original_docx_bytes)
    /\ pc' = "skills"
    /\ steps' = Append(steps, "load")
    /\ UNCHANGED apart
    /\ UNCHANGED << inputs, ai_suggestions, keywords_to_add, skills_modified, i,
                    in_experience, bullets_modified, result, response, fault, doc_skills,
                    edits >>

\* mutant of SkillsPass: the pass works on a copy of the document, and the
\* bullet pass gets the document as it was loaded
SkillsPassOnCopy ==
    /\ pc = "skills"
    /\ LET r == append_to_skills_section(doc, keywords_to_add)
       IN  /\ doc' = doc
           /\ doc_skills' = r.doc
           /\ skills_modified' = r.added
           /\ edits' = IF r.para = 0 THEN edits
                       ELSE Append(edits, [pass |-> "skills", para |-> r.para,
                                           kws |-> r.added, before |-> doc[r.para],
                                           after |-> r.doc[r.para], count |-> 0])
    /\ pc' = "bullets"
    /\ i' = 1
    /\ in_experience' = FALSE
    /\ bullets_modified' = 0
    /\ steps' = Append(steps, "skills")
    /\ UNCHANGED apart
    /\ UNCHANGED << inputs, ai_suggestions, keywords_to_add, tables, result, response,
                    fault >>

\* mutant of SkillsPass: the keywords the pass has appended are taken out of
\* the list of the caller
SkillsPassConsumes ==
    /\ pc = "skills"
    /\ LET r == append_to_skills_section(doc, keywords_to_add)
       IN  /\ doc' = r.doc
           /\ doc_skills' = r.doc
           /\ skills_modified' = r.added
           /\ keywords_to_add' =
                 SelectSeq(keywords_to_add,
                           LAMBDA k : \A n \in 1..Len(r.added) : r.added[n] # k)
           /\ edits' = IF r.para = 0 THEN edits
                       ELSE Append(edits, [pass |-> "skills", para |-> r.para,
                                           kws |-> r.added, before |-> doc[r.para],
                                           after |-> r.doc[r.para], count |-> 0])
    /\ pc' = "bullets"
    /\ i' = 1
    /\ in_experience' = FALSE
    /\ bullets_modified' = 0
    /\ steps' = Append(steps, "skills")
    /\ UNCHANGED apart
    /\ UNCHANGED << inputs, ai_suggestions, tables, result, response, fault >>

\* line 47
SkillsPass ==
    /\ pc = "skills"
    /\ LET r == append_to_skills_section(doc, keywords_to_add)
       IN  /\ doc' = r.doc
           /\ doc_skills' = r.doc
           /\ skills_modified' = r.added
           /\ edits' = IF r.para = 0 THEN edits
                       ELSE Append(edits, [pass |-> "skills", para |-> r.para,
                                           kws |-> r.added, before |-> doc[r.para],
                                           after |-> r.doc[r.para], count |-> 0])
    /\ pc' = "bullets"
    /\ i' = 1
    /\ in_experience' = FALSE
    /\ bullets_modified' = 0
    /\ steps' = Append(steps, "skills")
    /\ UNCHANGED apart
    /\ UNCHANGED << inputs, ai_suggestions, keywords_to_add, tables, result, response,
                    fault >>

\* lines 169-239: one iteration of the loop of enhance_relevant_bullets
BulletStep ==
    /\ pc = "bullets"
    /\ i <= Len(doc)
    /\ LET r == BulletIteration(doc, keywords_to_add, i, in_experience, bullets_modified)
       IN  /\ doc' = r.doc
           /\ in_experience' = r.in_experience
           /\ bullets_modified' = r.bullets_modified
           /\ i' = IF r.stop THEN Len(doc) + 1 ELSE i + 1
           /\ edits' = IF r.kw = 0 THEN edits
                       ELSE Append(edits, [pass |-> "bullets", para |-> i,
                                           kws |-> << keywords_to_add[r.kw] >>,
                                           before |-> doc[i], after |-> r.doc[i],
                                           count |-> bullets_modified])
    /\ UNCHANGED apart
    /\ UNCHANGED << inputs, ai_suggestions, pc, keywords_to_add, tables, skills_modified,
                    result, response, steps, fault, doc_skills >>

\* line 241, lines 52-56
BulletsReturn ==
    /\ pc = "bullets"
    /\ i > Len(doc)
    /\ pc' = "save"
    /\ steps' = Append(steps, "bullets")
    /\ UNCHANGED apart
    /\ UNCHANGED << inputs, ai_suggestions, keywords_to_add, doc, tables, skills_modified,
                    i, in_experience, bullets_modified, result, response, fault,
                    doc_skills, edits >>

\* lines 59-62
SaveDocument ==
    /\ pc = "save"
    /\ Return(Returned(Save(doc, tables)))
    /\ steps' = Append(steps, "save")
    /\ UNCHANGED apart
    /\ UNCHANGED << inputs, ai_suggestions, response, fault, edits >>

\* line 37 of a package that is not valid, and lines 64-69
LoadFails ==
    /\ pc = "load"
    /\ ~original_docx_bytes.valid
    /\ Return(ExceptHandler(original_docx_bytes, doc))
    /\ fault' = "load"
    /\ UNCHANGED apart
    /\ UNCHANGED << inputs, ai_suggestions, response, steps, edits >>

\* an exception out of python-docx in one of the steps of the try block
\* (lines 35-62), and lines 64-69
Fault ==
    /\ pc \in {"load", "skills", "bullets", "save"}
    /\ Return(ExceptHandler(original_docx_bytes, doc))
    /\ fault' = pc
    /\ UNCHANGED apart
    /\ UNCHANGED << inputs, ai_suggestions, response, steps, edits >>

Next ==
    \/ EndpointRequest
    \/ EndpointRespond
    \/ CoreEntry
    \/ LoadDocument
    \/ SkillsPass
    \/ BulletStep
    \/ BulletsReturn
    \/ SaveDocument
    \/ LoadFails
    \/ Fault

Spec == Init /\ [][Next]_vars

(***************************************************************************)
(* extract_text_from_file, called on an uploaded file                      *)
(***************************************************************************)
\* no call of the editor is under way
InitIdle ==
    /\ keywords_form = << >>
    /\ original_docx_bytes = NoBytes
    /\ ai_suggestions = NoCall
    /\ InitLocals

InitExtract ==
    /\ entry = "extract"
    /\ filename \in UploadNames
    /\ file_content \in FileContents
    /\ extracted = NotExtracted
    /\ calls = NoCalls
    /\ round = 1
    /\ request = NoRequest
    /\ status_code = 0
    /\ pc = "extract"
    /\ InitIdle

\* main.py line 301: extract_text_from_file(content, file.filename)
ExtractText ==
    /\ pc = "extract"
    /\ extracted' = extract_text_from_file(file_content, filename)
    /\ pc' = "done"
    /\ UNCHANGED << inputs, ai_suggestions, locals, result, response, steps, fault,
                    doc_skills, file_content, calls, round, request, status_code, edits >>

NextExtract == ExtractText

SpecExtract == InitExtract /\ [][NextExtract]_vars

(***************************************************************************)
(* create_tailored_resume_from_template, two calls at a time: a step of a  *)
(* call is a step of the single call above, taken on the frame of the call *)
(***************************************************************************)
InitConcurrent ==
    /\ entry = "concurrent"
    /\ filename = << >>
    /\ file_content = NoBytes
    /\ extracted = NotExtracted
    /\ round = 1
    /\ request = NoRequest
    /\ status_code = 0
    /\ calls \in [Calls -> {NewFrame(b, a) : b \in ConcurrentBytes,
                                              a \in ConcurrentSuggestions}]
    /\ pc = "concurrent"
    /\ InitIdle

\* call c takes a step that leaves its frame as f
ConcurrentStep(c, f) ==
    /\ calls' = [calls EXCEPT ![c] = f]
    /\ UNCHANGED << inputs, ai_suggestions, pc, locals, result, response, steps, fault,
                    doc_skills, file_content, extracted, round, request, status_code,
                    edits >>

\* lines 29-33
ConcurrentEntry(c) ==
    LET f == Frame(calls, c)
        kws == GetKeywords(f.ai_suggestions)
    IN  /\ calls[c].pc = "call"
        /\ ConcurrentStep(c, IF kws = << >>
                              THEN Answered(f, EmptyKeywords(f.original_docx_bytes))
                              ELSE [f EXCEPT !.keywords_to_add = kws, !.pc = "load"])

\* line 37, of a valid package
ConcurrentLoad(c) ==
    LET f == Frame(calls, c)
    IN  /\ calls[c].pc = "load"
        /\ f.original_docx_bytes.valid
        /\ ConcurrentStep(c, [f EXCEPT !.doc = Load(f.original_docx_bytes),
                                       !.tables = LoadTables(f.original_docx_bytes),
                                       !.pc = "skills"])

\* line 37 of a package that is not valid, and lines 64-69
ConcurrentLoadFails(c) ==
    LET f == Frame(calls, c)
    IN  /\ calls[c].pc = "load"
        /\ ~f.original_docx_bytes.valid
        /\ ConcurrentStep(c, Answered(f, ExceptHandler(f.original_docx_bytes, f.doc)))

\* line 47
ConcurrentSkills(c) ==
    LET f == Frame(calls, c)
        r == append_to_skills_section(f.doc, f.keywords_to_add)
    IN  /\ calls[c].pc = "skills"
        /\ ConcurrentStep(c, [f EXCEPT !.doc = r.doc, !.skills_modified = r.added,
                                       !.i = 1, !.in_experience = FALSE,
                                       !.bullets_modified = 0, !.pc = "bullets"])

\* lines 169-239: one iteration of the loop of enhance_relevant_bullets
ConcurrentBulletStep(c) ==
    LET f == Frame(calls, c)
    IN  /\ calls[c].pc = "bullets"
        /\ f.i <= Len(f.doc)
        /\ LET r == BulletIteration(f.doc, f.keywords_to_add, f.i, f.in_experience,
                                    f.bullets_modified)
           IN  ConcurrentStep(c, [f EXCEPT !.doc = r.doc,
                                           !.in_experience = r.in_experience,
                                           !.bullets_modified = r.bullets_modified,
                                           !.i = IF r.stop THEN Len(f.doc) + 1
                                                 ELSE f.i + 1])

\* line 241, lines 52-56
ConcurrentBulletsReturn(c) ==
    LET f == Frame(calls, c)
    IN  /\ calls[c].pc = "bullets"
        /\ f.i > Len(f.doc)
        /\ ConcurrentStep(c, [f EXCEPT !.pc = "save"])

\* lines 59-62
ConcurrentSave(c) ==
    LET f == Frame(calls, c)
    IN  /\ calls[c].pc = "save"
        /\ ConcurrentStep(c, Answered(f, Returned(Save(f.doc, f.tables))))

NextConcurrent ==
    \E c \in Calls :
        \/ ConcurrentEntry(c)
        \/ ConcurrentLoad(c)
        \/ ConcurrentLoadFails(c)
        \/ ConcurrentSkills(c)
        \/ ConcurrentBulletStep(c)
        \/ ConcurrentBulletsReturn(c)
        \/ ConcurrentSave(c)

SpecConcurrent == InitConcurrent /\ [][NextConcurrent]_vars

(***************************************************************************)
(* create_tailored_resume_from_template, called again on what it answered, *)
(* with the same keywords                                                  *)
(***************************************************************************)
InitRepeat ==
    /\ entry = "core"
    /\ filename = << >>
    /\ keywords_form = << >>
    /\ original_docx_bytes \in RepeatBytes
    /\ ai_suggestions \in RepeatSuggestions
    /\ pc = "call"
    /\ InitLocals
    /\ InitApart

\* lines 262-271, main.py lines 631-634: the answer of the call is the
\* original of the next call
CallAgain ==
    /\ pc = "done"
    /\ result # NotReturned
    /\ ~result.raised
    /\ round < MaxRounds
    /\ original_docx_bytes' = result.value
    /\ round' = round + 1
    /\ pc' = "call"
    /\ result' = NotReturned
    /\ steps' = << >>
    /\ edits' = << >>
    /\ UNCHANGED << entry, filename, keywords_form, ai_suggestions, locals, response,
                    fault, doc_skills, file_content, extracted, calls, request,
                    status_code >>

NextRepeat ==
    \/ CoreEntry
    \/ LoadDocument
    \/ SkillsPass
    \/ BulletStep
    \/ BulletsReturn
    \/ SaveDocument
    \/ CallAgain

SpecRepeat == InitRepeat /\ [][NextRepeat]_vars

(***************************************************************************)
(* The endpoints that validate the texts of the request                    *)
(***************************************************************************)
InitValidate ==
    /\ entry = "validate"
    /\ filename = << >>
    /\ file_content = NoBytes
    /\ extracted = NotExtracted
    /\ calls = NoCalls
    /\ round = 1
    /\ request \in Requests
    /\ status_code = 0
    /\ pc = "validate"
    /\ InitIdle

\* lines 96-111, 124-139, 153-187, 202-233, 485-537, 546-578
HandleRequest ==
    /\ pc = "validate"
    /\ status_code' = EndpointStatus(request)
    /\ pc' = "done"
    /\ UNCHANGED << inputs, ai_suggestions, locals, result, response, steps, fault,
                    doc_skills, file_content, extracted, calls, round, request, edits >>

NextValidate == HandleRequest

SpecValidate == InitValidate /\ [][NextValidate]_vars

(***************************************************************************)
(* Definitions shared by the properties                                    *)
(***************************************************************************)
IsPrefix(a, b) == Len(a) <= Len(b) /\ SubSeq(b, 1, Len(a)) = a

\* the call has answered
HasReturned == pc \in {"respond", "done"} /\ result # NotReturned

\* the document is in memory and the skills pass is over
InPasses == pc \in {"bullets", "save"}

OriginalDoc == Load(original_docx_bytes)

OriginalTables == LoadTables(original_docx_bytes)

EditSet == {edits[n] : n \in 1..Len(edits)}

BulletEdited(k) == \E e \in EditSet : e.pass = "bullets" /\ e.para = k

\* what the two passes, run to their end, make of the original document
FullyEnhanced ==
    LET kws == GetKeywords(ai_suggestions)
    IN  enhance_relevant_bullets(append_to_skills_section(OriginalDoc, kws).doc, kws).doc

\* the number of places of text at which t starts
Occurrences(text, t) ==
    Cardinality({k \in 1..(Len(text) - Len(t) + 1) : SubSeq(text, k, k + Len(t) - 1) = t})

(***************************************************************************)
(* C1: whenever a step of the try block raises (the load, the skills pass, *)
(* the bullet pass, the save), the call answers exactly the original bytes *)
(* and raises nothing; the endpoint then answers 200 with those bytes.     *)
(***************************************************************************)
C1_FailSafe ==
    fault # "none" =>
        /\ result = Returned(original_docx_bytes)
        /\ response # NoResponse => response = Response(200, original_docx_bytes)

\* the bullet pass raised after it had changed a paragraph
C1_Witness ==
    /\ fault = "bullets"
    /\ \E e \in EditSet : e.pass = "bullets"
    /\ result = Returned(original_docx_bytes)

(***************************************************************************)
(* C2: a call whose keyword list is empty or absent answers the original   *)
(* bytes and takes no step of the try block (no load, no pass); the        *)
(* endpoint whose parsed keyword list is empty answers the uploaded        *)
(* content and does not make the call.                                     *)
(***************************************************************************)
C2_EmptyKeywordsNoOp ==
    /\ ( /\ entry = "core"
         /\ pc = "done"
         /\ (~ai_suggestions.has_keywords \/ ai_suggestions.keywords = << >>) )
       => /\ result = Returned(original_docx_bytes)
          /\ steps = << >>
          /\ edits = << >>
    /\ ( /\ entry = "endpoint"
         /\ pc = "done"
         /\ IsDocxName(filename)
         /\ ParseKeywords(keywords_form) = << >> )
       => /\ response = Response(200, original_docx_bytes)
          /\ result = NotReturned
          /\ steps = << >>

\* the endpoint has answered a request whose keywords field holds only
\* separators and blanks
C2_Witness ==
    /\ entry = "endpoint"
    /\ pc = "done"
    /\ keywords_form # << >>
    /\ ParseKeywords(keywords_form) = << >>
    /\ original_docx_bytes.valid
    /\ response = Response(200, original_docx_bytes)

(***************************************************************************)
(* C3: while and after the passes run, the document has the paragraphs of  *)
(* the original, in their order, and the original text of each is a prefix *)
(* of its text; but a bullet the bullet pass edited may have lost the      *)
(* period its text ended with, and then its text ends with a period.       *)
(***************************************************************************)
Preserved(before, after, k) ==
    \/ IsPrefix(before, after)
    \/ /\ BulletEdited(k)
       /\ EndsWith(before, << "." >>)
       /\ IsPrefix(SubSeq(before, 1, Len(before) - 1), after)
       /\ EndsWith(after, << "." >>)

NonDestructive(d) ==
    /\ Len(d) = Len(OriginalDoc)
    /\ \A k \in 1..Len(d) : Preserved(ParaText(OriginalDoc[k]), ParaText(d[k]), k)

C3_NonDestructive ==
    /\ InPasses => NonDestructive(doc)
    /\ (HasReturned /\ fault = "none" /\ steps # << >>) => NonDestructive(result.value.doc)

\* both passes have edited, and the bullet pass has taken a period away
C3_Witness ==
    /\ pc = "save"
    /\ \E e \in EditSet : e.pass = "skills"
    /\ \E e \in EditSet :
          /\ e.pass = "bullets"
          /\ ~IsPrefix(ParaText(e.before), ParaText(e.after))

(***************************************************************************)
(* C4 (as written): what the call answers is a valid document, and it is   *)
(* the original or the document both passes have run over to their end.    *)
(***************************************************************************)
C4_AlwaysValidDocument ==
    HasReturned =>
        /\ result.value.valid
        /\ \/ result.value = original_docx_bytes
           \/ result.value = Save(FullyEnhanced, OriginalTables)

(***************************************************************************)
(* C4 (amended): what the call answers is the original bytes or the        *)
(* package of the document both passes have run over to their end, never a *)
(* document a pass was interrupted in; it is a valid document whenever the *)
(* input is one.                                                           *)
(***************************************************************************)
C4_OriginalOrFullyEnhanced ==
    /\ HasReturned =>
          /\ ~result.raised
          /\ \/ result.value = original_docx_bytes
             \/ fault = "none" /\ result.value = Save(FullyEnhanced, OriginalTables)
          /\ original_docx_bytes.valid => result.value.valid
    /\ (response # NoResponse /\ response.status = 200) =>
          \/ response.content = original_docx_bytes
          \/ fault = "none" /\ response.content = Save(FullyEnhanced, OriginalTables)

\* a step raised when the document in memory was neither the original nor
\* the fully enhanced one
C4_Witness ==
    /\ HasReturned
    /\ fault \in {"bullets", "save"}
    /\ edits # << >>
    /\ FullyEnhanced # OriginalDoc
    /\ result.value = original_docx_bytes

(***************************************************************************)
(* C5 (as written): when the input bytes are no valid package, the load    *)
(* fails and the failure reaches the caller.                               *)
(***************************************************************************)
C5_CorruptIsHardFailure ==
    (HasReturned /\ ~original_docx_bytes.valid /\ fault = "load") => result.raised

(***************************************************************************)
(* C5 (amended): when the input bytes are no valid package and the keyword *)
(* list is not empty, the load fails, the failure is caught and the call   *)
(* answers the input bytes as they are; the endpoint answers 200 with      *)
(* them.  No pass runs.                                                    *)
(***************************************************************************)
C5_CorruptFallsBack ==
    (HasReturned /\ ~original_docx_bytes.valid /\ GetKeywords(ai_suggestions) # << >>) =>
        /\ fault = "load"
        /\ result = Returned(original_docx_bytes)
        /\ steps = << "entered" >>
        /\ response # NoResponse => response = Response(200, original_docx_bytes)

\* the endpoint has answered an upload that is no valid package
C5_Witness ==
    /\ entry = "endpoint"
    /\ pc = "done"
    /\ ~original_docx_bytes.valid
    /\ fault = "load"
    /\ response = Response(200, original_docx_bytes)

(***************************************************************************)
(* C6 (as written): after both passes, at most one paragraph of the Skills *)
(* section (the paragraphs after the first Skills header, up to the next   *)
(* header candidate) has a changed text.                                   *)
(***************************************************************************)
SkillsSection(d) ==
    LET h == FirstSkillsHeader(d)
    IN  IF h = 0 THEN {}
        ELSE {k \in (h + 1)..Len(d) :
                \A m \in (h + 1)..k : ~is_section_header(Strip(ParaText(d[m])))}

C6_AtMostOneSkillsParagraph ==
    pc = "save" =>
        Cardinality({k \in SkillsSection(OriginalDoc) :
                        ParaText(doc[k]) # ParaText(OriginalDoc[k])}) <= 1

(***************************************************************************)
(* C7: the bullet pass changes at most max_modifications = 2 paragraphs;   *)
(* each changed paragraph has one run more, " utilizing " and a keyword of *)
(* the list (and a period), so one more phrase than before; the count the  *)
(* pass keeps is the number of paragraphs it has changed; no paragraph is  *)
(* changed once the count is 2.                                            *)
(***************************************************************************)
OnePhraseAdded(before, after) ==
    /\ Len(after) = Len(before) + 1
    /\ \E n \in 1..Len(keywords_to_add) :
          after[Len(after)].text \in
              {Utilizing \o keywords_to_add[n], Utilizing \o keywords_to_add[n] \o << "." >>}
    /\ Occurrences(ParaText(after), Utilizing) = Occurrences(ParaText(before), Utilizing) + 1

BoundedBulletEdits ==
    InPasses =>
        LET changed == {k \in 1..Len(doc) : doc[k] # doc_skills[k]}
        IN  /\ Cardinality(changed) <= max_modifications
            /\ bullets_modified = Cardinality(changed)
            /\ \A k \in changed : OnePhraseAdded(doc_skills[k], doc[k])

NoEditAfterBound ==
    \A e \in EditSet : e.pass = "bullets" => e.count < max_modifications

C7_BoundedBulletEdits == BoundedBulletEdits /\ NoEditAfterBound

\* two bullets are edited, and a bullet a keyword fits was left as it was
C7_Witness ==
    /\ pc = "save"
    /\ bullets_modified = max_modifications
    /\ \E k \in 1..Len(doc) :
          /\ ~BulletEdited(k)
          /\ doc[k] \in {P_BulletA, P_BulletB}
          /\ ChosenKeyword(doc[k], keywords_to_add, Lower(Strip(ParaText(doc[k])))) # 0

(***************************************************************************)
(* C8: no pass appends to a paragraph a keyword whose lowercase form is a  *)
(* substring of the lowercase text the paragraph had before the append.    *)
(***************************************************************************)
C8_CaseInsensitiveDedup ==
    \A e \in EditSet : \A n \in 1..Len(e.kws) :
        ~Contains(Lower(ParaText(e.before)), Lower(e.kws[n]))

\* the skills pass has appended keywords and has left out one that the
\* paragraph holds in another case
C8_Witness ==
    \E e \in EditSet :
        /\ e.pass = "skills"
        /\ \E n \in 1..Len(keywords_to_add) :
              /\ Contains(Lower(ParaText(e.before)), Lower(keywords_to_add[n]))
              /\ ~Contains(ParaText(e.before), keywords_to_add[n])
              /\ \A m \in 1..Len(e.kws) : e.kws[m] # keywords_to_add[n]

(***************************************************************************)
(* C9 (as written): the run a pass appends has every font field            *)
(* (font_name, font_size, bold) that is set on the run that was last in    *)
(* the paragraph; appended to a paragraph without runs it sets none.       *)
(***************************************************************************)
InheritsFormatting(before, after) ==
    LET new_run == after[Len(after)]
    IN  IF before = << >>
        THEN new_run.font_name = None /\ new_run.font_size = None /\ new_run.bold = None
        ELSE LET last_run == before[Len(before)]
             IN  /\ last_run.font_name # None => new_run.font_name = last_run.font_name
                 /\ last_run.font_size # None => new_run.font_size = last_run.font_size
                 /\ last_run.bold # None => new_run.bold = last_run.bold

C9_FormattingInherited ==
    \A e \in EditSet : InheritsFormatting(e.before, e.after)

(***************************************************************************)
(* C10 (as written): with the keywords Python, Docker, Kubernetes, AWS,    *)
(* Terraform, Ansible, the paragraph "Skills: Python, SQL" becomes         *)
(* "Skills: Python, SQL, Docker, Kubernetes, AWS, Terraform".              *)
(***************************************************************************)
ScenarioKeywords == << K_Python, K_Docker, K_Kubernetes, K_AWS, K_Terraform, K_Ansible >>

InlineExpected ==
    <<"S","k","i","l","l","s",":"," ","P","y","t","h","o","n",","," ","S","Q","L",
      ","," ","D","o","c","k","e","r",","," ","K","u","b","e","r","n","e","t","e",
      "s",","," ","A","W","S",","," ","T","e","r","r","a","f","o","r","m">>

ContentExpected ==
    <<"P","y","t","h","o","n",","," ","S","Q","L",","," ","D","o","c","k","e","r",
      ","," ","K","u","b","e","r","n","e","t","e","s",","," ","A","W","S",","," ",
      "T","e","r","r","a","f","o","r","m",","," ","A","n","s","i","b","l","e">>

C10_InlineSkillsLineExtended ==
    (pc = "save" /\ keywords_to_add = ScenarioKeywords) =>
        \A k \in 1..Len(doc) :
            OriginalDoc[k] = P_SkillsInline => ParaText(doc[k]) = InlineExpected

(***************************************************************************)
(* C10 (amended): with these keywords, a paragraph "Skills: Python, SQL"   *)
(* is itself the Skills header and stays as it is; the paragraph           *)
(* "Python, SQL" after a "Skills" header becomes "Python, SQL, Docker,     *)
(* Kubernetes, AWS, Terraform, Ansible": Python is left out as present,    *)
(* and the cap of 5 counts the missing keywords only, so Ansible, the      *)
(* fifth of them, is appended.                                             *)
(***************************************************************************)
C10_SkillsScenario ==
    (pc = "save" /\ keywords_to_add = ScenarioKeywords) =>
        /\ \A k \in 1..Len(doc) : OriginalDoc[k] = P_SkillsInline => doc[k] = P_SkillsInline
        /\ OriginalDoc = << P_Skills, P_Content >> =>
              /\ doc[1] = P_Skills
              /\ ParaText(doc[2]) = ContentExpected
              /\ skills_modified =
                    << K_Docker, K_Kubernetes, K_AWS, K_Terraform, K_Ansible >>

\* the scenario has run on the header followed by the line "Python, SQL"
C10_Witness ==
    /\ pc = "save"
    /\ keywords_to_add = ScenarioKeywords
    /\ OriginalDoc = << P_Skills, P_Content >>
    /\ ParaText(doc[2]) = ContentExpected

(***************************************************************************)
(* Definitions shared by the properties of the skills pass                 *)
(***************************************************************************)
\* the rule of the header candidate, as the specification words it
HeaderCandidate(text) ==
    Len(Strip(text)) < HeaderMaxLen /\ AnyIn(headers, Lower(text))

NoSkillsHeader(d) == \A k \in 1..Len(d) : ~is_skills_header(d[k])

\* the first paragraph the skills pass takes for a header, 0 if none
SkillsHeaderAt(d) ==
    IF NoSkillsHeader(d) THEN 0
    ELSE CHOOSE k \in 1..Len(d) :
            is_skills_header(d[k]) /\ \A m \in 1..(k - 1) : ~is_skills_header(d[m])

LongEnough(p) == Len(Strip(ParaText(p))) >= ContentMinLen

\* the skills content paragraph of the specification: the first paragraph
\* after the header that is long enough, unless it is a header candidate; 0
\* if the scan meets a header candidate or the end first
ContentParagraph(d) ==
    LET h == SkillsHeaderAt(d)
        long == {j \in (h + 1)..Len(d) : LongEnough(d[j])}
    IN  IF h = 0 \/ long = {} THEN 0
        ELSE LET j == CHOOSE x \in long : \A y \in long : x <= y
             IN  IF HeaderCandidate(ParaText(d[j])) THEN 0 ELSE j

HoldsKeyword(p, kw) == Contains(Lower(ParaText(p)), Lower(kw))

SkillsEdits == {e \in EditSet : e.pass = "skills"}

\* the call has answered after all its steps, none of which raised
Completed == HasReturned /\ fault = "none" /\ steps # << >>

(***************************************************************************)
(* C11 (as written): when no paragraph is a Skills header and the keyword  *)
(* list is not empty, the skills pass adds no keyword and the document the *)
(* call answers is the document it was given.                              *)
(***************************************************************************)
C11_NoSkillsHeaderSameOutput ==
    /\ (InPasses /\ NoSkillsHeader(OriginalDoc)) => skills_modified = << >>
    /\ (Completed /\ NoSkillsHeader(OriginalDoc)) => result.value.doc = OriginalDoc

(***************************************************************************)
(* C11 (amended): when no paragraph is a Skills header and the keyword     *)
(* list is not empty, the skills pass adds no keyword and changes no       *)
(* paragraph; the call answers the package python-docx writes of the       *)
(* document as the bullet pass left it, which differs from the input       *)
(* where that pass has edited a bullet.                                    *)
(***************************************************************************)
C11_NoSkillsHeaderOnlyBullets ==
    /\ (InPasses /\ NoSkillsHeader(OriginalDoc)) =>
          /\ skills_modified = << >>
          /\ doc_skills = OriginalDoc
          /\ SkillsEdits = {}
    /\ (Completed /\ NoSkillsHeader(OriginalDoc)) =>
          /\ result.value.enc = "python-docx"
          /\ Len(result.value.doc) = Len(OriginalDoc)
          /\ \A k \in 1..Len(OriginalDoc) :
                result.value.doc[k] # OriginalDoc[k] => BulletEdited(k)

\* the call has answered, for a document without a Skills header, a
\* document in which a bullet is edited
C11_Witness ==
    /\ Completed
    /\ NoSkillsHeader(OriginalDoc)
    /\ \E k \in 1..Len(OriginalDoc) : result.value.doc[k] # OriginalDoc[k]

(***************************************************************************)
(* C12 (as written): in an Experience section, the paragraph "Designed a   *)
(* low-power comparator for the ADC." with the keyword "analog" becomes    *)
(* "Designed a low-power comparator for the ADC utilizing analog."         *)
(***************************************************************************)
PlainExpected ==
    <<"D","e","s","i","g","n","e","d"," ","a"," ","l","o","w","-","p","o","w","e",
      "r"," ","c","o","m","p","a","r","a","t","o","r"," ","f","o","r"," ","t","h",
      "e"," ","A","D","C"," ","u","t","i","l","i","z","i","n","g"," ","a","n","a",
      "l","o","g",".">>

BulletAExpected ==
    <<"u2022"," ","D","e","s","i","g","n","e","d"," ","a"," ","l","o","w","-","p",
      "o","w","e","r"," ","c","o","m","p","a","r","a","t","o","r"," ","f","o","r",
      " ","t","h","e"," ","A","D","C"," ","u","t","i","l","i","z","i","n","g"," ",
      "a","n","a","l","o","g",".">>

C12_PlainParagraphEnhanced ==
    (pc = "save" /\ keywords_to_add = << K_analog >>
                 /\ OriginalDoc = << P_Experience, P_Plain >>)
        => ParaText(doc[2]) = PlainExpected

(***************************************************************************)
(* C12 (amended): in an Experience section, the paragraph "u2022 Designed  *)
(* a low-power comparator for the ADC.", whose text starts with a bullet   *)
(* character, becomes with the keyword "analog" "u2022 Designed a          *)
(* low-power comparator for the ADC utilizing analog."; the same paragraph *)
(* without a bullet character at its start is no bullet and stays as it    *)
(* is.                                                                     *)
(***************************************************************************)
C12_BulletScenario ==
    (pc = "save" /\ keywords_to_add = << K_analog >>) =>
        /\ OriginalDoc = << P_Experience, P_BulletA >> =>
              /\ ParaText(doc[2]) = BulletAExpected
              /\ bullets_modified = 1
        /\ OriginalDoc = << P_Experience, P_Plain >> =>
              /\ doc = OriginalDoc
              /\ bullets_modified = 0

\* the scenario has run on the paragraph that starts with the bullet character
C12_Witness ==
    /\ pc = "save"
    /\ keywords_to_add = << K_analog >>
    /\ OriginalDoc = << P_Experience, P_BulletA >>
    /\ ParaText(doc[2]) = BulletAExpected

(***************************************************************************)
(* C13 (as written): when the skills content paragraph holds every keyword *)
(* (in any case), the skills pass returns nothing and changes no           *)
(* paragraph.                                                              *)
(***************************************************************************)
AllKeywordsPresent(d, kws) ==
    /\ ContentParagraph(d) # 0
    /\ \A n \in 1..Len(kws) : HoldsKeyword(d[ContentParagraph(d)], kws[n])

C13_AllKeywordsPresentNoOp ==
    (InPasses /\ AllKeywordsPresent(OriginalDoc, keywords_to_add)) =>
        /\ skills_modified = << >>
        /\ doc_skills = OriginalDoc

(***************************************************************************)
(* C14: when no paragraph is a Skills header, or the scan after the first  *)
(* Skills header meets a header candidate or the end of the document       *)
(* before a content paragraph, the skills pass returns nothing and changes *)
(* no paragraph.                                                           *)
(***************************************************************************)
C14_NoSkillsSectionNoOp ==
    (InPasses /\ ContentParagraph(OriginalDoc) = 0) =>
        /\ skills_modified = << >>
        /\ doc_skills = OriginalDoc
        /\ SkillsEdits = {}

\* the scan has met a header candidate after the Skills header, with a
\* paragraph after it that lacks a keyword
C14_Witness ==
    /\ InPasses
    /\ SkillsHeaderAt(OriginalDoc) # 0
    /\ ContentParagraph(OriginalDoc) = 0
    /\ \E k \in (SkillsHeaderAt(OriginalDoc) + 1)..Len(OriginalDoc) :
          /\ LongEnough(OriginalDoc[k])
          /\ ~HeaderCandidate(ParaText(OriginalDoc[k]))
          /\ \E n \in 1..Len(keywords_to_add) :
                ~HoldsKeyword(OriginalDoc[k], keywords_to_add[n])

(***************************************************************************)
(* C18: when the skills pass modifies a paragraph, it appends exactly one  *)
(* run, whose text is ", " followed by the first min(5, |missing|)         *)
(* keywords of missing joined by ", ", where missing is the keywords, in   *)
(* the order given, that the paragraph does not hold in any case; the      *)
(* keywords the pass returns are those appended, in the same order.        *)
(***************************************************************************)
Missing(p, kws) == SelectSeq(kws, LAMBDA kw : ~HoldsKeyword(p, kw))

FirstFive(kws) == [n \in 1..(IF Len(kws) < 5 THEN Len(kws) ELSE 5) |-> kws[n]]

RECURSIVE CommaList(_)
CommaList(kws) ==
    IF kws = << >> THEN << >>
    ELSE << ",", " " >> \o kws[1] \o CommaList(Tail(kws))

C18_OneRunOfMissingKeywords ==
    /\ \A e \in SkillsEdits :
          LET chosen == FirstFive(Missing(e.before, GetKeywords(ai_suggestions)))
          IN  /\ chosen # << >>
              /\ Len(e.after) = Len(e.before) + 1
              /\ SubSeq(e.after, 1, Len(e.before)) = e.before
              /\ e.after[Len(e.after)].text = CommaList(chosen)
              /\ e.kws = chosen
    /\ InPasses =>
          /\ skills_modified # << >> =>
                \E e \in SkillsEdits : skills_modified = e.kws /\ doc_skills[e.para] = e.after
          /\ skills_modified = << >> => SkillsEdits = {}

\* the skills pass has appended the first five of more than five missing
\* keywords
C18_Witness ==
    /\ InPasses
    /\ \E e \in SkillsEdits :
          /\ Len(Missing(e.before, keywords_to_add)) > 5
          /\ Len(skills_modified) = 5
          /\ doc_skills[e.para] = e.after

(***************************************************************************)
(* C19 (as written): the paragraph the skills pass edits is the skills     *)
(* content paragraph (the first paragraph after the first Skills header    *)
(* with trimmed length >= 5, not a header candidate), wherever it lies     *)
(* after the header; shorter paragraphs are skipped however many there     *)
(* are.                                                                    *)
(***************************************************************************)
LacksKeyword(p, kws) == \E n \in 1..Len(kws) : ~HoldsKeyword(p, kws[n])

C19_ContentParagraphAnywhere ==
    InPasses =>
        LET c == ContentParagraph(OriginalDoc)
        IN  /\ \A e \in SkillsEdits : e.para = c
            /\ (c # 0 /\ LacksKeyword(OriginalDoc[c], keywords_to_add)) =>
                  \E e \in SkillsEdits : e.para = c

(***************************************************************************)
(* C19 (amended): a paragraph the skills pass edits lies among the nine    *)
(* paragraphs after the first Skills header, has trimmed length >= 5, is   *)
(* no header candidate and has no header candidate between the header and  *)
(* itself; the skills content paragraph is the one edited when it is among *)
(* those nine and lacks a keyword, and nothing is edited when it lies      *)
(* further from the header.                                                *)
(***************************************************************************)
C19_ContentParagraphInWindow ==
    InPasses =>
        LET h == SkillsHeaderAt(OriginalDoc)
            c == ContentParagraph(OriginalDoc)
        IN  /\ \A e \in SkillsEdits :
                  /\ h # 0
                  /\ h < e.para /\ e.para <= h + ScanWindow - 1
                  /\ LongEnough(OriginalDoc[e.para])
                  /\ \A m \in (h + 1)..e.para : ~HeaderCandidate(ParaText(OriginalDoc[m]))
            /\ (c # 0 /\ c <= h + ScanWindow - 1
                      /\ LacksKeyword(OriginalDoc[c], keywords_to_add)) =>
                  \E e \in SkillsEdits : e.para = c
            /\ (c # 0 /\ c > h + ScanWindow - 1) => SkillsEdits = {}

\* the skills pass has edited the last paragraph it looks at, after eight
\* short ones
C19_Witness ==
    /\ InPasses
    /\ \E e \in SkillsEdits :
          /\ e.para = SkillsHeaderAt(OriginalDoc) + ScanWindow - 1
          /\ e.para = ContentParagraph(OriginalDoc)

(***************************************************************************)
(* C20 (as written): the Skills-header test of the skills pass, the        *)
(* Experience-header test of the bullet pass and is_section_header agree   *)
(* with one rule on every paragraph: a header of either family is a header *)
(* candidate (trimmed text shorter than 50 characters, lowercase text      *)
(* holding a section keyword), and is_section_header is that rule.         *)
(***************************************************************************)
C20_OneHeaderRule ==
    pc = "skills" =>
        \A k \in 1..Len(doc) :
            LET text == ParaText(doc[k])
            IN  /\ is_skills_header(doc[k]) => HeaderCandidate(text)
                /\ is_experience_header(Strip(text)) => HeaderCandidate(text)
                /\ is_section_header(Strip(text)) <=> HeaderCandidate(text)
                /\ is_skills_header(doc[k]) <=>
                      (Len(Strip(text)) < HeaderMaxLen /\ AnyIn(skills_headers, Lower(text)))

(***************************************************************************)
(* C15: neither pass changes a table or a paragraph inside a table, and    *)
(* the document the call writes holds every paragraph, table and run that  *)
(* no pass has touched, in the original order.                             *)
(***************************************************************************)
Edited(k) == \E e \in EditSet : e.para = k

\* the paragraphs of d are those of the original, one for one and in order;
\* a paragraph no pass has edited is as it was, and an edited one keeps the
\* runs before its last run
BodyKept(d) ==
    /\ Len(d) = Len(OriginalDoc)
    /\ \A k \in 1..Len(OriginalDoc) :
          /\ ~Edited(k) => d[k] = OriginalDoc[k]
          /\ Edited(k) =>
                /\ Len(d[k]) >= Len(OriginalDoc[k])
                /\ \A n \in 1..(Len(OriginalDoc[k]) - 1) : d[k][n] = OriginalDoc[k][n]

C15_TablesPassThrough ==
    /\ pc \in {"skills", "bullets", "save"} =>
          /\ tables = OriginalTables
          /\ BodyKept(doc)
    /\ Completed =>
          /\ result.value.tables = OriginalTables
          /\ BodyKept(result.value.doc)

\* the call has written a document whose table holds a Skills header and a
\* bullet, after a pass has edited a paragraph of the body
C15_Witness ==
    /\ Completed
    /\ EditSet # {}
    /\ \E n \in 1..Len(result.value.tables) :
          \E c \in 1..Len(result.value.tables[n].cells) :
              /\ is_skills_header(result.value.tables[n].cells[c])
    /\ \E n \in 1..Len(result.value.tables) :
          \E c \in 1..Len(result.value.tables[n].cells) :
              /\ IsBullet(ParaText(result.value.tables[n].cells[c]))

(***************************************************************************)
(* C17: for any bytes and filename, extract_text_from_file gives the       *)
(* extracted text or raises ValueError and no exception of another kind:   *)
(* ValueError for an extension that is not supported (.doc among them) and *)
(* for a PDF or DOCX that cannot be read, the text otherwise.              *)
(***************************************************************************)
Extension(name, ext) == EndsWith(Lower(name), ext)

IsPdfName(name) == Extension(name, << ".", "p", "d", "f" >>)
IsTxtName(name) == Extension(name, << ".", "t", "x", "t" >>)

TableResumeText ==
    <<"E","x","p","e","r","i","e","n","c","e","\n","\n","-"," ","B","u","i","l","t",
      " ","c","i","r","c","u","i","t","\n","\n","S","k","i","l","l","s"," ","|"," ",
      "u2022"," ","D","e","s","i","g","n","e","d"," ","a"," ","l","o","w","-","p",
      "o","w","e","r"," ","c","o","m","p","a","r","a","t","o","r"," ","f","o","r",
      " ","t","h","e"," ","A","D","C",".">>

C17_TextOrValueError ==
    pc = "done" =>
        /\ extracted.raised \in {"none", "ValueError"}
        /\ extracted.raised = "none" <=>
              \/ IsPdfName(filename) /\ file_content.enc = "pdf"
              \/ Extension(filename, DotDocx) /\ file_content.valid
              \/ IsTxtName(filename)
        /\ extracted.raised = "ValueError" => extracted.text = << >>
        /\ (extracted.raised = "none" /\ IsTxtName(filename)) =>
              BadByte \notin {extracted.text[k] : k \in 1..Len(extracted.text)}
        /\ (Extension(filename, DotDocx) /\ file_content = TableResume) =>
              extracted = Extracted(TableResumeText)
        /\ (IsPdfName(filename) /\ file_content = PdfResume) =>
              extracted = Extracted(<<"J","a","n","e"," ","D","o","e","\n","\n"," ","A","n","a","l","o","g"," ","d","e","s","i","g","n">>)

\* a PDF name with bytes that are no PDF has raised ValueError
C17_Witness ==
    /\ pc = "done"
    /\ IsPdfName(filename)
    /\ file_content.enc # "pdf"
    /\ extracted = Raises("ValueError")

(***************************************************************************)
(* C16: calls that run at the same time share no state: under every        *)
(* interleaving of their steps, each call answers the bytes it answers     *)
(* when it runs alone on its own bytes and keywords.                       *)
(***************************************************************************)
C16_ConcurrentCallsIndependent ==
    \A c \in Calls :
        /\ calls[c].pc = "done" =>
              calls[c].result =
                  create_tailored_resume_from_template(calls[c].original_docx_bytes,
                                                       calls[c].ai_suggestions)
        /\ calls[c].pc \in {"skills", "bullets", "save"} =>
              /\ calls[c].keywords_to_add = GetKeywords(calls[c].ai_suggestions)
              /\ calls[c].tables = LoadTables(calls[c].original_docx_bytes)
              /\ Len(calls[c].doc) = Len(Load(calls[c].original_docx_bytes))

\* one call has answered an edited document while the other, given another
\* document and other keywords, is between its passes with a paragraph edited
C16_Witness ==
    \E c, o \in Calls :
        /\ calls[c].pc = "done"
        /\ calls[c].result.value.enc = "python-docx"
        /\ calls[c].result.value.doc # Load(calls[c].original_docx_bytes)
        /\ calls[o].pc = "bullets"
        /\ calls[o].doc # Load(calls[o].original_docx_bytes)
        /\ calls[o].original_docx_bytes # calls[c].original_docx_bytes
        /\ calls[o].ai_suggestions # calls[c].ai_suggestions

(***************************************************************************)
(* Definitions shared by the properties of the bullet pass                 *)
(***************************************************************************)
\* a header candidate that holds an Experience-family word
ExperienceFamily(text) ==
    HeaderCandidate(text) /\ AnyIn(experience_headers, Lower(text))

\* the most recent header candidate among the first n paragraphs of d is an
\* Experience-family header
ExperienceScope(d, n) ==
    LET cands == {k \in 1..n : HeaderCandidate(ParaText(d[k]))}
    IN  /\ cands # {}
        /\ ExperienceFamily(ParaText(d[CHOOSE k \in cands : \A m \in cands : m <= k]))

\* the trimmed text of the paragraph starts with a bullet character
StartsWithBulletChar(p) ==
    LET text == Strip(ParaText(p))
    IN  text # << >> /\ text[1] \in {"u2022", "-", "*"}

\* the keyword is not in the paragraph, in any case, and is relevant to it
Fits(kw, p) ==
    LET text_lower == Lower(Strip(ParaText(p)))
    IN  /\ ~Contains(text_lower, Lower(kw))
        /\ \E t \in 1..Len(related_terms) :
              /\ Contains(Lower(kw), related_terms[t].term)
              /\ \E r \in 1..Len(related_terms[t].related) :
                    Contains(text_lower, related_terms[t].related[r])

BulletEdits == {e \in EditSet : e.pass = "bullets"}

(***************************************************************************)
(* C21: while the bullet pass scans the paragraphs in document order, at   *)
(* every paragraph the flag in_experience is true iff the most recent      *)
(* header candidate before it is an Experience-family header: the flag is  *)
(* set on such a header, cleared on any other header candidate and left    *)
(* alone by every other paragraph.                                         *)
(***************************************************************************)
C21_ExperienceScopeTracked ==
    (pc = "bullets" /\ i <= Len(doc)) => in_experience = ExperienceScope(doc, i - 1)

\* the scan is past the header Education and a paragraph of 50 characters or
\* more that holds the word experience, and the flag is not set
C21_Witness ==
    /\ pc = "bullets"
    /\ i = 3
    /\ doc[2] = P_Summary
    /\ ~in_experience
    /\ doc[1] = P_Education

(***************************************************************************)
(* C22: the bullet pass changes only paragraphs inside an Experience scope *)
(* whose trimmed text starts with one of the bullet characters; every      *)
(* other paragraph keeps its runs as the skills pass left them.            *)
(***************************************************************************)
BulletInScope(d, k) == ExperienceScope(d, k - 1) /\ StartsWithBulletChar(d[k])

C22_BulletPassFrame ==
    pc \in {"bullets", "save"} =>
        /\ Len(doc) = Len(doc_skills)
        /\ \A k \in 1..Len(doc) :
              doc[k] # doc_skills[k] => BulletEdited(k) /\ BulletInScope(doc_skills, k)
        /\ \A e \in BulletEdits :
              e.before = doc_skills[e.para] /\ BulletInScope(doc_skills, e.para)

\* the pass is over: it has edited a bullet and has left alone a bullet
\* outside the scope and a paragraph in the scope that is no bullet, each
\* with a keyword that fits
C22_Witness ==
    /\ pc = "save"
    /\ BulletEdits # {}
    /\ \/ \E k \in 1..Len(doc) :
             /\ ~ExperienceScope(doc, k - 1)
             /\ StartsWithBulletChar(doc[k])
             /\ \E n \in 1..Len(keywords_to_add) : Fits(keywords_to_add[n], doc[k])
       \/ \E k \in 1..Len(doc) :
             /\ ExperienceScope(doc, k - 1)
             /\ ~StartsWithBulletChar(doc[k])
             /\ \E n \in 1..Len(keywords_to_add) : Fits(keywords_to_add[n], doc[k])

(***************************************************************************)
(* C23: a bullet is modified iff some keyword is not in it, in any case,   *)
(* and is relevant to it, and it is among the first max_modifications such *)
(* bullets in document order; the keyword appended is the first such       *)
(* keyword in input order.                                                 *)
(***************************************************************************)
FittingKeywords(kws, p) == {n \in 1..Len(kws) : Fits(kws[n], p)}

\* the bullets in scope that have a keyword that fits
Targets(d, kws) ==
    {k \in 1..Len(d) : /\ BulletInScope(d, k)
                       /\ ~HeaderCandidate(ParaText(d[k]))
                       /\ FittingKeywords(kws, d[k]) # {}}

FirstTargets(d, kws) ==
    {k \in Targets(d, kws) :
        Cardinality({m \in Targets(d, kws) : m < k}) < max_modifications}

C23_KeywordChoice ==
    /\ pc = "save" =>
          {e.para : e \in BulletEdits} = FirstTargets(doc_skills, keywords_to_add)
    /\ \A e \in BulletEdits :
          LET fitting == FittingKeywords(GetKeywords(ai_suggestions), e.before)
          IN  /\ fitting # {}
              /\ e.kws = << GetKeywords(ai_suggestions)[
                               CHOOSE n \in fitting : \A m \in fitting : n <= m] >>

\* a bullet has got the first of two keywords that fit it
C23_Witness ==
    /\ pc = "save"
    /\ \E e \in BulletEdits :
          /\ Cardinality(FittingKeywords(keywords_to_add, e.before)) > 1
          /\ e.kws = << keywords_to_add[1] >>

(***************************************************************************)
(* C24 (as written): when the trimmed text of a modified bullet ends with  *)
(* a period, the text after the edit is the text before without its final  *)
(* period, followed by " utilizing {keyword}.", with no period directly    *)
(* before " utilizing"; otherwise the run " utilizing {keyword}" is        *)
(* appended and no run is changed.                                         *)
(***************************************************************************)
RECURSIVE WithoutFinalPeriod(_)
\* the text without the last period in it
WithoutFinalPeriod(text) ==
    IF text = << >> THEN << >>
    ELSE IF text[Len(text)] = "." THEN SubSeq(text, 1, Len(text) - 1)
    ELSE Append(WithoutFinalPeriod(SubSeq(text, 1, Len(text) - 1)), text[Len(text)])

C24_PeriodHandling ==
    \A e \in BulletEdits :
        LET before == ParaText(e.before)
            after == ParaText(e.after)
            kw == e.kws[1]
        IN  IF EndsWith(Strip(before), << "." >>)
            THEN /\ after = WithoutFinalPeriod(before) \o Utilizing \o kw \o << "." >>
                 /\ e.after[Len(e.after)].text = Utilizing \o kw \o << "." >>
            ELSE /\ e.after[Len(e.after)].text = Utilizing \o kw
                 /\ SubSeq(e.after, 1, Len(e.before)) = e.before

(***************************************************************************)
(* C25: in every run with keywords the steps are taken in the order load,  *)
(* skills pass, bullet pass, save; the bullet pass starts on the document  *)
(* as the skills pass left it; the document is saved once, after both      *)
(* passes have returned without a fault; and a fault at any step makes the *)
(* call answer the original bytes.                                         *)
(***************************************************************************)
StepOrder == << "entered", "load", "skills", "bullets", "save" >>

StepsBefore(position) ==
    CASE position = "load" -> 1
      [] position = "skills" -> 2
      [] position = "bullets" -> 3
      [] position = "save" -> 4

\* the last edit of paragraph k, in the order of the edits
LastEditOf(k) ==
    edits[CHOOSE n \in 1..Len(edits) :
             /\ edits[n].para = k
             /\ \A m \in (n + 1)..Len(edits) : edits[m].para # k]

C25_OrchestratorOrdering ==
    /\ IsPrefix(steps, StepOrder)
    /\ pc \in {"load", "skills", "bullets", "save"} =>
          /\ Len(steps) = StepsBefore(pc)
          /\ fault = "none"
          /\ result = NotReturned
    /\ (pc = "bullets" /\ i = 1) => doc = doc_skills
    /\ pc \in {"bullets", "save"} =>
          \A e \in SkillsEdits :
              doc_skills[e.para] = e.after /\ IsPrefix(e.after, doc[e.para])
    /\ Len(steps) = Len(StepOrder) =>
          /\ fault = "none"
          /\ HasReturned
          /\ result.value.enc = "python-docx"
          /\ \A k \in 1..Len(OriginalDoc) :
                result.value.doc[k] = IF Edited(k) THEN LastEditOf(k).after
                                      ELSE OriginalDoc[k]
    /\ fault # "none" =>
          /\ HasReturned
          /\ result = Returned(original_docx_bytes)
          /\ Len(steps) = StepsBefore(fault)

\* the document has been saved after the skills pass and the bullet pass have
\* each edited a paragraph
C25_Witness ==
    /\ steps = StepOrder
    /\ SkillsEdits # {}
    /\ BulletEdits # {}

(***************************************************************************)
(* C26: the skills pass leaves the keyword list of the caller as it is, so *)
(* the bullet pass gets the complete list, and a keyword the skills pass   *)
(* has appended can still be appended to a bullet in the same call.        *)
(***************************************************************************)
InSeq(x, xs) == \E n \in 1..Len(xs) : xs[n] = x

C26_KeywordListNotConsumed ==
    /\ pc \in {"bullets", "save"} => keywords_to_add = GetKeywords(ai_suggestions)
    /\ pc = "save" =>
          \A k \in 1..Len(doc) :
              ( /\ BulletInScope(doc_skills, k)
                /\ ~HeaderCandidate(ParaText(doc_skills[k]))
                /\ \E n \in 1..Len(skills_modified) : Fits(skills_modified[n], doc_skills[k])
                /\ Cardinality(BulletEdits) < max_modifications )
              => BulletEdited(k)

\* a bullet has got a keyword that the skills pass has appended in the same
\* call
C26_Witness ==
    /\ pc = "save"
    /\ \E e \in BulletEdits : InSeq(e.kws[1], skills_modified)

(***************************************************************************)
(* C27 (as written): the skills pass modifies no paragraph before the      *)
(* first Skills header and no paragraph that belongs to a later Skills     *)
(* header.                                                                 *)
(***************************************************************************)
C27_OnlyFirstSkillsHeader ==
    \A e \in SkillsEdits :
        LET h == SkillsHeaderAt(OriginalDoc)
        IN  /\ h # 0
            /\ e.para > h
            /\ \A m \in (h + 1)..(e.para - 1) : ~is_skills_header(OriginalDoc[m])

(***************************************************************************)
(* C28: in every state of a call, no paragraph that is a header candidate  *)
(* (trimmed length under 50, holding a section keyword) has a run appended *)
(* or a run text changed by either pass.                                   *)
(***************************************************************************)
C28_HeadersNeverEdited ==
    /\ \A e \in EditSet : ~HeaderCandidate(ParaText(e.before))
    /\ pc \in {"bullets", "save"} =>
          \A k \in 1..Len(OriginalDoc) :
              HeaderCandidate(ParaText(OriginalDoc[k])) => doc[k] = OriginalDoc[k]

\* both passes are over, a paragraph is edited, and a header candidate after
\* the Skills header that lacks a keyword is as it was
C28_Witness ==
    /\ pc = "save"
    /\ EditSet # {}
    /\ \E k \in (SkillsHeaderAt(OriginalDoc) + 1)..Len(OriginalDoc) :
          /\ SkillsHeaderAt(OriginalDoc) # 0
          /\ HeaderCandidate(ParaText(OriginalDoc[k]))
          /\ LacksKeyword(OriginalDoc[k], keywords_to_add)
          /\ doc[k] = OriginalDoc[k]

(***************************************************************************)
(* C29 (as written): after any number of calls, each on the answer of the  *)
(* call before and with the same keywords, every paragraph holds at most   *)
(* one " utilizing " phrase and ends with at most one period.              *)
(***************************************************************************)
C29_NoPhrasePileUp ==
    (pc = "done" /\ result # NotReturned) =>
        \A k \in 1..Len(result.value.doc) :
            LET text == ParaText(result.value.doc[k])
            IN  /\ Occurrences(text, Utilizing) <= 1
                /\ ~EndsWith(Strip(text), << ".", "." >>)

(***************************************************************************)
(* C30 (as written): in the endpoints parse-job, parse-resume, match,      *)
(* cover-letter, generate-resume and generate-cover-letter, a request the  *)
(* validation rejects (job text shorter than 50 characters when trimmed,   *)
(* resume text shorter than 100) is answered with status 400, and status   *)
(* 500 is answered only for a fault that is not expected.                  *)
(***************************************************************************)
C30_ValidationAnswers400 ==
    pc = "done" =>
        /\ FailsValidation(request) => status_code = 400
        /\ status_code = 500 => (request.ai_fails /\ ~FailsValidation(request))

====
